---- MODULE Spec2Model ----
(***************************************************************************)
(* Model of the OMBM processing pipeline (src/ombm/pipeline.py) over the   *)
(* content cache (src/ombm/cache.py): BookmarkProcessor.process_bookmark   *)
(* as a coroutine whose suspension points are its awaits, and              *)
(* BookmarkProcessor.process_bookmarks as one task per bookmark behind an  *)
(* asyncio.Semaphore, gathered with return_exceptions=True.  Further       *)
(* sections model the CacheManager over its SQLite file, the retry loops   *)
(* of LLMService (src/ombm/llm.py), WebScraper and its two strategies      *)
(* (src/ombm/scraper.py), the processor's context, and the controller's    *)
(* process_bookmarks_to_metadata (src/ombm/controller.py), the             *)
(* PersistenceManager (src/ombm/persistence.py), the organize command      *)
(* (src/ombm/__main__.py), the controller's context, the pages of          *)
(* PlaywrightScraper.fetch, and TaxonomyParser (src/ombm/tree_builder.py), *)
(* each with a specification of its own.                                   *)
(***************************************************************************)
EXTENDS Integers, Sequences, FiniteSets, TLC

\* ------------------------------------------------------------------ bounds
MaxBookmarks == 2

MaxConcurrency == 2

URLS == {"u1", "u2"}

\* ------------------------------------------------------------------ values
\* Python's None, as a record so that it compares with the other values.
None == [kind |-> "None"]

\* models.ScrapeResult as the scraper and the cache build it; text 0 is the
\* content of an earlier run, text i the content fetched for bookmark i.
ScrapeResult(url, text) == [kind |-> "ScrapeResult", url |-> url, text |-> text]

\* models.LLMMetadata: generated for url from the content `text` by the
\* generation `gen` (0: an earlier run, i: bookmark i of this batch).
LLMMetadata(url, text, gen) ==
    [kind |-> "LLMMetadata", url |-> url, text |-> text, gen |-> gen]

BookmarkRecord(uuid, url) == [kind |-> "BookmarkRecord", uuid |-> uuid, url |-> url]

\* f"{prefix}{e}"
ErrorText(prefix, e) == [kind |-> "str", prefix |-> prefix, e |-> e]

\* An exception object: what a call raised, as gather's result list holds it.
ExceptionValue(e) == [kind |-> "Exception", e |-> e]

\* ---------------------------------------------------------------- cache.py
\* CacheManager._hash_url: the sha256 hex digest of the url, one key per url.
HashUrl(url) == <<"sha256", url>>

Keys == {HashUrl(u) : u \in URLS}

\* Mutant: the lookup never finds a row.
CacheGetAlwaysMisses(table, url) == None

\* SELECT ... WHERE url_hash = ? : the row's value, or None.
CacheGet(table, url) == table[HashUrl(url)]

\* INSERT OR REPLACE keyed by the hash of the value's own url.
CachePut(table, value) == [table EXCEPT ![HashUrl(value.url)] = value]

\* How a CacheManager call can end: it returns, or the store raises.
CacheAnswers == {"ok", "error"}

VARIABLES
    use_cache,        \* BookmarkProcessor.use_cache
    scraper,          \* BookmarkProcessor._scraper: "None" or "WebScraper"
    llm_service,      \* BookmarkProcessor._llm_service: "None" or "LLMService"
    cache_scrape,     \* table scrape_results: key -> ScrapeResult or None
    cache_llm,        \* table llm_metadata: key -> LLMMetadata or None
    cache_ops,        \* the CacheManager methods called so far (each calls initialize)
    batch,            \* process_bookmarks: "idle", "running", "returned"
    bookmarks,        \* its argument bookmarks
    concurrency,      \* its argument concurrency
    force_refresh,    \* its argument force_refresh
    has_callback,     \* progress_callback is not None
    sem,              \* semaphore._value
    completed,        \* the nonlocal counter completed
    pc,               \* per task: the await it is suspended at
    scrape_result,    \* per task: local scrape_result
    llm_metadata,     \* per task: local llm_metadata
    used_cache,       \* per task: local used_cache
    returned,         \* per task: what process_bookmark returned, or None
    results,          \* per task: its entry in gather's result list, or None
    processed_results,\* the list process_bookmarks returns
    calls,            \* per task: what it called and what it got (history)
    finished,         \* the tasks in the order they finished (history)
    progress,         \* the (completed, total) pairs given to the callback
    cache0,           \* the two tables when the processor was built (history)
    \* cache.py: the database file at db_path and the CacheManagers over it
    db_tables,        \* the tables the file holds (its schema)
    db_scrape,        \* the rows of table scrape_results
    db_llm,           \* the rows of table llm_metadata
    cm_initialized,   \* per CacheManager: _initialized
    cm_call,          \* per caller: the CacheManager call it is in
    cm_stored,        \* per kind and url: the value last stored since the last clear (history)
    cm_ops,           \* the number of calls made so far
    \* llm.py: one LLMService.title_desc call
    max_retries,      \* LLMService.max_retries
    attempt,          \* the loop variable attempt
    llm_pc,           \* where title_desc is: "idle", "create", "sleep", "returned", "raised"
    llm_outcome,      \* what it returned or raised, or None
    remote,           \* the results of the remote calls made so far (history)
    sleeps            \* the backoff sleeps made so far (history)

VARIABLES
    \* llm.py: one LLMService.propose_taxonomy call
    tax_max_retries,  \* LLMService.max_retries of the service it is called on
    tax_input,        \* len(metadata_list)
    tax_attempt,      \* the loop variable attempt
    tax_pc,           \* "idle", "create", "sleep", "returned", "raised"
    tax_outcome,      \* what it returned or raised, or None
    tax_sleeps,       \* the backoff sleeps made so far (history)
    \* llm.py: the construction of the metadata from a parsed response
    parsed_data,      \* result_data: the "name" and "description" values of the parsed response
    built_metadata    \* the LLMMetadata built from it, or None

VARIABLES
    \* scraper.py: one WebScraper and the PlaywrightScraper it may hold
    ws_use_playwright,     \* WebScraper.use_playwright
    ws_playwright_scraper, \* WebScraper._playwright_scraper: "None" or "PlaywrightScraper"
    pw_browser,            \* PlaywrightScraper._browser: "None", "open" or "closed"
    pw_context,            \* PlaywrightScraper._context: "None", "open" or "closed"
    ws_ctx,                \* the WebScraper context: "new", "entered", "enter_failed", "exited"
    ws_enters,             \* the number of WebScraper.__aenter__ calls (history)
    ws_exits,              \* the number of WebScraper.__aexit__ calls (history)
    fetch_pc,              \* WebScraper.fetch: "idle", "primary", "fallback", "returned", "raised"
    fetch_url,             \* its argument url
    fetch_retry,           \* its argument retry_with_fallback
    fetch_session,         \* the session when it was called (history)
    fetch_outcome,         \* what it returned or raised, or None
    fetch_calls,           \* the strategies it invoked, with url and result (history)
    fetches,               \* the fetches made so far: "ok" or "failed" (history)
    \* pipeline.py: the context of the BookmarkProcessor holding the WebScraper
    supplied,              \* the scraper was given to BookmarkProcessor.__init__
    processor_ctx,         \* "none", "new", "entered", "enter_failed", "exited"
    ws0                    \* the WebScraper's session when the processor was built (history)

VARIABLES
    \* scraper.py: one _extract_readable_text call
    text_strategy,    \* the class it is called on: "playwright" or "httpx"
    text_path,        \* the path taken: "readability" (the try) or "basic" (the except)
    text_in,          \* the text soup.get_text gave on that path
    text_out          \* the text returned, or None

VARIABLES
    \* controller.py: BookmarkController.process_bookmarks_to_metadata
    metadata_list,    \* the list it returned, or None
    errors            \* its local list errors

VARIABLES
    \* persistence.py: one PersistenceManager, held by a BookmarkController
    pm_configured,    \* BookmarkController.persistence_manager is not None
    pm_dry_run,       \* PersistenceManager.dry_run
    plist_exists,     \* source_path.exists(): Safari's Bookmarks.plist is there
    os_effects,       \* the copies of the plist and the scripts executed so far (history)
    pm_calls,         \* the calls made so far and what each returned or raised (history)
    \* controller.py: the context of a BookmarkController over the processor
    ctl_given,        \* the processor was given to BookmarkController.__init__
    ctl_manages,      \* BookmarkController._manages_processor_lifecycle
    ctl_ctx,          \* "none", "new", "entered", "enter_failed", "exited"
    \* scraper.py: the PlaywrightScraper.fetch calls on one browsing context
    pg_fetch,         \* per fetch: where it is, the page it opened, how it ended
    pg_open,          \* the pages open in the context
    pg_pages,         \* the number of pages the context has created (history)
    \* tree_builder.py: one TaxonomyParser
    tp_processed_urls,       \* TaxonomyParser.processed_urls
    tp_missing_bookmarks,    \* TaxonomyParser.missing_bookmarks, as a set
    tp_duplicate_bookmarks,  \* TaxonomyParser.duplicate_bookmarks
    tp_input,                \* the arguments of the last parse_taxonomy call, or None
    tp_result,               \* what it returned or raised, or None
    tp_calls                 \* the number of parse_taxonomy calls made (history)

\* The variables of cache.py's and of llm.py's own models.
cache_vars == <<db_tables, db_scrape, db_llm, cm_initialized, cm_call, cm_stored, cm_ops>>

llm_vars == <<max_retries, attempt, llm_pc, llm_outcome, remote, sleeps>>

tax_vars == <<tax_max_retries, tax_input, tax_attempt, tax_pc, tax_outcome, tax_sleeps>>

\* The variables of the models of the other calls and modules.
field_vars == <<parsed_data, built_metadata>>

scraper_vars ==
    <<ws_use_playwright, ws_playwright_scraper, pw_browser, pw_context, ws_ctx,
      ws_enters, ws_exits, fetch_pc, fetch_url, fetch_retry, fetch_session,
      fetch_outcome, fetch_calls, fetches>>

lifecycle_vars == <<supplied, processor_ctx, ws0>>

text_vars == <<text_strategy, text_path, text_in, text_out>>

controller_vars == <<metadata_list, errors>>

persistence_vars == <<pm_configured, pm_dry_run, plist_exists, os_effects, pm_calls>>

ctl_vars == <<ctl_given, ctl_manages, ctl_ctx>>

page_vars == <<pg_fetch, pg_open, pg_pages>>

tree_vars ==
    <<tp_processed_urls, tp_missing_bookmarks, tp_duplicate_bookmarks, tp_input,
      tp_result, tp_calls>>

more_vars == <<persistence_vars, ctl_vars, page_vars, tree_vars>>

other_vars ==
    <<tax_vars, field_vars, scraper_vars, lifecycle_vars, text_vars, controller_vars,
      more_vars>>

\* What the processor's steps leave alone: the state outside pipeline.py.
elsewhere == <<cache_vars, llm_vars, other_vars>>

\* pipeline.py's own variables.
pipeline_vars ==
    <<use_cache, scraper, llm_service, cache_scrape,
      cache_llm, cache_ops, batch, bookmarks, concurrency, force_refresh,
      has_callback, sem, completed, pc, scrape_result, llm_metadata,
      used_cache, returned, results, processed_results, calls, finished,
      progress, cache0>>

vars == <<pipeline_vars, elsewhere>>

\* The processor's own fields and the cache; the arguments of the batch.
processor == <<use_cache, scraper, llm_service>>

cache == <<cache_scrape, cache_llm, cache_ops>>

arguments == <<bookmarks, concurrency, force_refresh, has_callback>>

Tasks == 1..Len(bookmarks)

\* ------------------------------------------------------------- pipeline.py
ProcessingResult(bookmark, sr, md, error, uc) ==
    [kind |-> "ProcessingResult",
     bookmark |-> bookmark,
     scrape_result |-> sr,
     llm_metadata |-> md,
     error |-> error,
     used_cache |-> uc,
     success |-> (error = None /\ md # None)]

\* The calls a task has made so far and what each gave it: "-" for a call
\* not made, n_fetch / n_generate the number of collaborator invocations,
\* generate_with the content handed to the generator.
NoCalls ==
    [get_scrape |-> "-", fetch |-> "-", store_scrape |-> "-",
     get_llm |-> "-", generate |-> "-", store_llm |-> "-", callback |-> "-",
     n_fetch |-> 0, n_generate |-> 0, generate_with |-> None]

\* Mutant: force_refresh is ignored, the cache is consulted all the same.
LooksUpIgnoringForce(force) == use_cache

\* `if self.use_cache and not force_refresh` (lines 117 and 146)
LooksUpFor(force) == use_cache /\ ~force

LooksUp == LooksUpFor(force_refresh)

\* Where process_bookmark first suspends (lines 117-128).
StepOne == IF LooksUp THEN "get_scrape" ELSE "fetch"

\* Mutant: the metadata lookup is skipped, the generator always runs.
StepTwoSkipsLookup == "generate"

\* Where it suspends once scrape_result is settled (lines 146-158).
StepTwo == IF LooksUp THEN "get_llm" ELSE "generate"

\* Mutant: fetched content is never stored, the item goes on to step two.
AfterFetchSkipsStore == StepTwo

\* `if self.use_cache` after a fetch (lines 134-135).
AfterFetch == IF use_cache THEN "store_scrape" ELSE StepTwo

\* The result built by the outer `except Exception` (lines 187-189).
UnexpectedResult(i, e) ==
    ProcessingResult(bookmarks[i], None, None, ErrorText("Unexpected error: ", e), FALSE)

\* Mutant: no `except ScraperError`, the outer handler builds the result.
ScrapingFailedAsUnexpected(i, e) ==
    ProcessingResult(bookmarks[i], None, None, ErrorText("Unexpected error: ", e), FALSE)

\* `except ScraperError` (lines 137-141).
ScrapingFailed(i, e) ==
    ProcessingResult(bookmarks[i], None, None, ErrorText("Scraping failed: ", e), FALSE)

\* Mutant: the failure result drops the extracted content.
LLMFailedWithoutContent(i, sr, e) ==
    ProcessingResult(bookmarks[i], None, None, ErrorText("LLM processing failed: ", e), FALSE)

\* `except LLMError` (lines 170-178).
LLMFailed(i, sr, e) ==
    ProcessingResult(bookmarks[i], sr, None, ErrorText("LLM processing failed: ", e), FALSE)

\* Mutant: the success result is built without the accumulated flag.
SuccessResultWithoutFlag(i, sr, md, uc) == ProcessingResult(bookmarks[i], sr, md, None, FALSE)

\* The final return (lines 180-185).
SuccessResult(i, sr, md, uc) == ProcessingResult(bookmarks[i], sr, md, None, uc)

\* The callback's possible behaviours: it returns or it raises.
CallbackAnswers == IF has_callback THEN {"ok", "raised"} ELSE {"-"}

\* process_bookmark goes on to its next await; c is the task's call history.
Continue(i, next, c) ==
    /\ pc' = [pc EXCEPT ![i] = next]
    /\ calls' = [calls EXCEPT ![i] = c]
    /\ UNCHANGED <<sem, completed, returned, results, progress, finished>>

\* Mutant: the callback is given the counter as it was before the increment.
FinishReportsStaleCount(i, res, c) ==
    \E cb \in CallbackAnswers :
        /\ pc' = [pc EXCEPT ![i] = "done"]
        /\ returned' = [returned EXCEPT ![i] = res]
        /\ completed' = completed + 1
        /\ progress' = IF has_callback
                       THEN Append(progress, <<completed, Len(bookmarks)>>)
                       ELSE progress
        /\ results' = [results EXCEPT ![i] =
                          IF cb = "raised" THEN ExceptionValue("callback") ELSE res]
        /\ sem' = sem + 1
        /\ finished' = Append(finished, i)
        /\ calls' = [calls EXCEPT ![i] = [c EXCEPT !.callback = cb]]

\* Mutant: the semaphore is released by hand after the callback instead of by
\* `async with`, so an exception of the callback keeps the permit.
FinishKeepsPermit(i, res, c) ==
    \E cb \in CallbackAnswers :
        /\ pc' = [pc EXCEPT ![i] = "done"]
        /\ returned' = [returned EXCEPT ![i] = res]
        /\ completed' = completed + 1
        /\ progress' = IF has_callback
                       THEN Append(progress, <<completed + 1, Len(bookmarks)>>)
                       ELSE progress
        /\ results' = [results EXCEPT ![i] =
                          IF cb = "raised" THEN ExceptionValue("callback") ELSE res]
        /\ sem' = IF cb = "raised" THEN sem ELSE sem + 1
        /\ finished' = Append(finished, i)
        /\ calls' = [calls EXCEPT ![i] = [c EXCEPT !.callback = cb]]

\* process_bookmark returns res: the rest of process_with_semaphore
\* (lines 224-228) runs without suspension, then the semaphore is released.
Finish(i, res, c) ==
    \E cb \in CallbackAnswers :
        /\ pc' = [pc EXCEPT ![i] = "done"]
        /\ returned' = [returned EXCEPT ![i] = res]
        /\ completed' = completed + 1
        /\ progress' = IF has_callback
                       THEN Append(progress, <<completed + 1, Len(bookmarks)>>)
                       ELSE progress
        /\ results' = [results EXCEPT ![i] =
                          IF cb = "raised" THEN ExceptionValue("callback") ELSE res]
        /\ sem' = sem + 1
        /\ finished' = Append(finished, i)
        /\ calls' = [calls EXCEPT ![i] = [c EXCEPT !.callback = cb]]

\* Mutant: no outer `except Exception`; the exception leaves process_bookmark
\* and the task: no count, no callback, the semaphore released by `async with`.
UnexpectedEscapes(i, e, c) ==
    /\ pc' = [pc EXCEPT ![i] = "done"]
    /\ returned' = [returned EXCEPT ![i] = ExceptionValue(e)]
    /\ results' = [results EXCEPT ![i] = ExceptionValue(e)]
    /\ sem' = sem + 1
    /\ finished' = Append(finished, i)
    /\ calls' = [calls EXCEPT ![i] = c]
    /\ UNCHANGED <<completed, progress>>

\* An exception other than the step's own error class is raised inside
\* process_bookmark: the outer `except Exception` returns a result (187-189).
Unexpected(i, e, c) == Finish(i, UnexpectedResult(i, e), c)

\* ----------------------------------------------------------------- actions
\* The url lists of a batch; the urls are named in the order of their first
\* appearance, so a list starts with u1.
InputLists ==
    {us \in UNION {[1..n -> URLS] : n \in 0..MaxBookmarks} :
        us = <<>> \/ us[1] = "u1"}

\* Mutant: __aenter__ initializes the cache whatever use_cache says.
AEnterAlwaysInitializes ==
    /\ batch = "idle"
    /\ cache_ops' = cache_ops \cup {"initialize"}
    /\ scraper' = "WebScraper"
    /\ llm_service' = "LLMService"
    /\ UNCHANGED <<use_cache, cache_scrape, cache_llm, batch, arguments, sem,
                   completed, pc, scrape_result, llm_metadata, used_cache,
                   returned, results, processed_results, calls, finished,
                   progress, cache0, elsewhere>>

\* BookmarkProcessor.__aenter__ (lines 73-88).
AEnter ==
    /\ batch = "idle"
    /\ IF use_cache
       THEN cache_ops' = cache_ops \cup {"initialize"}
       ELSE UNCHANGED cache_ops
    /\ scraper' = "WebScraper"
    /\ llm_service' = "LLMService"
    /\ UNCHANGED <<use_cache, cache_scrape, cache_llm, batch, arguments, sem,
                   completed, pc, scrape_result, llm_metadata, used_cache,
                   returned, results, processed_results, calls, finished,
                   progress, cache0, elsewhere>>

\* Mutant: a concurrency below one is raised to one.
ProcessBookmarksAtLeastOne ==
    /\ batch = "idle"
    /\ \E us \in InputLists, c \in 0..MaxConcurrency, f \in BOOLEAN, cb \in BOOLEAN :
        /\ bookmarks' = [i \in 1..Len(us) |-> BookmarkRecord(i, us[i])]
        /\ concurrency' = c
        /\ force_refresh' = f
        /\ has_callback' = cb
        /\ sem' = IF c < 1 THEN 1 ELSE c
        /\ pc' = [i \in 1..Len(us) |-> "waiting"]
        /\ scrape_result' = [i \in 1..Len(us) |-> None]
        /\ llm_metadata' = [i \in 1..Len(us) |-> None]
        /\ used_cache' = [i \in 1..Len(us) |-> FALSE]
        /\ returned' = [i \in 1..Len(us) |-> None]
        /\ results' = [i \in 1..Len(us) |-> None]
        /\ calls' = [i \in 1..Len(us) |-> NoCalls]
    /\ batch' = "running"
    /\ completed' = 0
    /\ progress' = <<>>
    /\ finished' = <<>>
    /\ processed_results' = <<>>
    /\ UNCHANGED <<processor, cache, cache0, elsewhere>>

\* process_bookmarks is called (lines 191-231): the semaphore, the counter
\* and one task per bookmark.
ProcessBookmarks ==
    /\ batch = "idle"
    /\ \E us \in InputLists, c \in 0..MaxConcurrency, f \in BOOLEAN, cb \in BOOLEAN :
        /\ bookmarks' = [i \in 1..Len(us) |-> BookmarkRecord(i, us[i])]
        /\ concurrency' = c
        /\ force_refresh' = f
        /\ has_callback' = cb
        /\ sem' = c
        /\ pc' = [i \in 1..Len(us) |-> "waiting"]
        /\ scrape_result' = [i \in 1..Len(us) |-> None]
        /\ llm_metadata' = [i \in 1..Len(us) |-> None]
        /\ used_cache' = [i \in 1..Len(us) |-> FALSE]
        /\ returned' = [i \in 1..Len(us) |-> None]
        /\ results' = [i \in 1..Len(us) |-> None]
        /\ calls' = [i \in 1..Len(us) |-> NoCalls]
    /\ batch' = "running"
    /\ completed' = 0
    /\ progress' = <<>>
    /\ finished' = <<>>
    /\ processed_results' = <<>>
    /\ UNCHANGED <<processor, cache, cache0, elsewhere>>

\* Mutant: no semaphore, every task starts at once.
AcquireUnlimited(i) ==
    /\ batch = "running"
    /\ pc[i] = "waiting"
    /\ sem' = sem - 1
    /\ pc' = [pc EXCEPT ![i] = StepOne]
    /\ UNCHANGED <<processor, cache, batch, arguments, completed, scrape_result,
                   llm_metadata, used_cache, returned, results,
                   processed_results, calls, finished, progress, cache0, elsewhere>>

\* `async with semaphore` admits task i (line 220), which runs to its first await.
Acquire(i) ==
    /\ batch = "running"
    /\ pc[i] = "waiting"
    /\ sem > 0
    /\ sem' = sem - 1
    /\ pc' = [pc EXCEPT ![i] = StepOne]
    /\ UNCHANGED <<processor, cache, batch, arguments, completed, scrape_result,
                   llm_metadata, used_cache, returned, results,
                   processed_results, calls, finished, progress, cache0, elsewhere>>

\* cache_manager.get_scrape_result returns or raises (lines 118-121).
GetScrape(i) ==
    /\ batch = "running"
    /\ pc[i] = "get_scrape"
    /\ cache_ops' = cache_ops \cup {"initialize", "get_scrape_result"}
    /\ \E a \in CacheAnswers :
        /\ IF a # "ok"
           THEN /\ Unexpected(i, "CacheError", [calls[i] EXCEPT !.get_scrape = "error"])
                /\ UNCHANGED <<scrape_result, used_cache>>
           ELSE LET v == CacheGet(cache_scrape, bookmarks[i].url) IN
                IF v # None
                THEN /\ scrape_result' = [scrape_result EXCEPT ![i] = v]
                     /\ used_cache' = [used_cache EXCEPT ![i] = TRUE]
                     /\ Continue(i, StepTwo, [calls[i] EXCEPT !.get_scrape = "hit"])
                ELSE /\ Continue(i, "fetch", [calls[i] EXCEPT !.get_scrape = "miss"])
                     /\ UNCHANGED <<scrape_result, used_cache>>
    /\ UNCHANGED <<processor, cache_scrape, cache_llm, batch, arguments,
                   llm_metadata, processed_results, cache0, elsewhere>>

\* self._scraper.fetch returns or raises, or there is no scraper (lines 125-141).
Fetch(i) ==
    /\ batch = "running"
    /\ pc[i] = "fetch"
    /\ IF scraper = "None"
       THEN /\ Unexpected(i, "Scraper not initialized",
                          [calls[i] EXCEPT !.fetch = "uninitialized"])
            /\ UNCHANGED scrape_result
       ELSE \E a \in {"ok", "ScraperError", "Exception"} :
            LET c == [calls[i] EXCEPT !.fetch = a, !.n_fetch = @ + 1] IN
            CASE a = "ok" ->
                    /\ scrape_result' = [scrape_result EXCEPT ![i] =
                                            ScrapeResult(bookmarks[i].url, i)]
                    /\ Continue(i, AfterFetch, c)
              [] a = "ScraperError" ->
                    /\ Finish(i, ScrapingFailed(i, "ScraperError"), c)
                    /\ UNCHANGED scrape_result
              [] a = "Exception" ->
                    /\ Unexpected(i, "Exception", c)
                    /\ UNCHANGED scrape_result
    /\ UNCHANGED <<processor, cache, batch, arguments, llm_metadata, used_cache,
                   processed_results, cache0, elsewhere>>

\* cache_manager.store_scrape_result returns or raises (lines 134-135).
StoreScrape(i) ==
    /\ batch = "running"
    /\ pc[i] = "store_scrape"
    /\ cache_ops' = cache_ops \cup {"initialize", "store_scrape_result"}
    /\ \E a \in CacheAnswers :
        /\ IF a # "ok"
           THEN /\ Unexpected(i, "CacheError", [calls[i] EXCEPT !.store_scrape = "error"])
                /\ UNCHANGED cache_scrape
           ELSE /\ cache_scrape' = CachePut(cache_scrape, scrape_result[i])
                /\ Continue(i, StepTwo, [calls[i] EXCEPT !.store_scrape = "ok"])
    /\ UNCHANGED <<processor, cache_llm, batch, arguments, scrape_result,
                   llm_metadata, used_cache, processed_results, cache0, elsewhere>>

\* cache_manager.get_llm_metadata returns or raises (lines 147-150); on a hit
\* process_bookmark returns its result (lines 180-185).
GetLLM(i) ==
    /\ batch = "running"
    /\ pc[i] = "get_llm"
    /\ cache_ops' = cache_ops \cup {"initialize", "get_llm_metadata"}
    /\ \E a \in CacheAnswers :
        /\ IF a # "ok"
           THEN /\ Unexpected(i, "CacheError", [calls[i] EXCEPT !.get_llm = "error"])
                /\ UNCHANGED <<llm_metadata, used_cache>>
           ELSE LET v == CacheGet(cache_llm, bookmarks[i].url) IN
                IF v # None
                THEN /\ llm_metadata' = [llm_metadata EXCEPT ![i] = v]
                     /\ used_cache' = [used_cache EXCEPT ![i] = TRUE]
                     /\ Finish(i, SuccessResult(i, scrape_result[i], v, TRUE),
                               [calls[i] EXCEPT !.get_llm = "hit"])
                ELSE /\ Continue(i, "generate", [calls[i] EXCEPT !.get_llm = "miss"])
                     /\ UNCHANGED <<llm_metadata, used_cache>>
    /\ UNCHANGED <<processor, cache_scrape, cache_llm, batch, arguments,
                   scrape_result, processed_results, cache0, elsewhere>>

\* self._llm_service.title_desc_from_scrape_result returns or raises, or there
\* is no service (lines 154-178); without caching the result is returned.
Generate(i) ==
    /\ batch = "running"
    /\ pc[i] = "generate"
    /\ IF llm_service = "None"
       THEN /\ Unexpected(i, "LLM service not initialized",
                          [calls[i] EXCEPT !.generate = "uninitialized"])
            /\ UNCHANGED llm_metadata
       ELSE \E a \in {"ok", "LLMError", "Exception"} :
            LET c == [calls[i] EXCEPT !.generate = a, !.n_generate = @ + 1,
                                      !.generate_with = scrape_result[i]]
                md == LLMMetadata(scrape_result[i].url, scrape_result[i].text, i)
            IN
            CASE a = "ok" ->
                    /\ llm_metadata' = [llm_metadata EXCEPT ![i] = md]
                    /\ IF use_cache
                       THEN Continue(i, "store_llm", c)
                       ELSE Finish(i, SuccessResult(i, scrape_result[i], md,
                                                    used_cache[i]), c)
              [] a = "LLMError" ->
                    /\ Finish(i, LLMFailed(i, scrape_result[i], "LLMError"), c)
                    /\ UNCHANGED llm_metadata
              [] a = "Exception" ->
                    /\ Unexpected(i, "Exception", c)
                    /\ UNCHANGED llm_metadata
    /\ UNCHANGED <<processor, cache, batch, arguments, scrape_result, used_cache,
                   processed_results, cache0, elsewhere>>

\* cache_manager.store_llm_metadata returns or raises (lines 167-168), then
\* process_bookmark returns its result (lines 180-185).
StoreLLM(i) ==
    /\ batch = "running"
    /\ pc[i] = "store_llm"
    /\ cache_ops' = cache_ops \cup {"initialize", "store_llm_metadata"}
    /\ \E a \in CacheAnswers :
        /\ IF a # "ok"
           THEN /\ Unexpected(i, "CacheError", [calls[i] EXCEPT !.store_llm = "error"])
                /\ UNCHANGED cache_llm
           ELSE /\ cache_llm' = CachePut(cache_llm, llm_metadata[i])
                /\ Finish(i, SuccessResult(i, scrape_result[i], llm_metadata[i],
                                           used_cache[i]),
                          [calls[i] EXCEPT !.store_llm = "ok"])
    /\ UNCHANGED <<processor, cache_scrape, batch, arguments, scrape_result,
                   llm_metadata, used_cache, processed_results, cache0, elsewhere>>

\* Mutant: the result built for a failed task carries no error.
TaskFailedWithoutError(i, e) == ProcessingResult(bookmarks[i], None, None, None, FALSE)

\* `ProcessingResult(bookmark=bookmarks[i], error=f"Task failed: {result}")`
TaskFailed(i, e) ==
    ProcessingResult(bookmarks[i], None, None, ErrorText("Task failed: ", e), FALSE)

\* Mutant: gather's entries are returned as they are, exceptions included.
ProcessedResultRaw(i) == results[i]

\* One entry of the list built after gather (lines 236-248).
ProcessedResult(i) ==
    IF results[i].kind = "Exception" THEN TaskFailed(i, results[i].e) ELSE results[i]

\* Mutant: the results are collected as the tasks complete.
GatherInCompletionOrder ==
    /\ batch = "running"
    /\ \A i \in Tasks : pc[i] = "done"
    /\ processed_results' = [k \in Tasks |-> ProcessedResult(finished[k])]
    /\ batch' = "returned"
    /\ UNCHANGED <<processor, cache, arguments, sem, completed, pc,
                   scrape_result, llm_metadata, used_cache, returned, results,
                   calls, finished, progress, cache0, elsewhere>>

\* gather has every task's result; process_bookmarks returns (lines 232-258).
Gather ==
    /\ batch = "running"
    /\ \A i \in Tasks : pc[i] = "done"
    /\ processed_results' = [i \in Tasks |-> ProcessedResult(i)]
    /\ batch' = "returned"
    /\ UNCHANGED <<processor, cache, arguments, sem, completed, pc,
                   scrape_result, llm_metadata, used_cache, returned, results,
                   calls, finished, progress, cache0, elsewhere>>

\* process_bookmark(bookmarks[i], force) run to its end on its own over the
\* cache as the processor found it, each call it makes ending as task i's
\* call ended (lines 112-189, top to bottom).
ProcessBookmarkAlone(i, force) ==
    LET b == bookmarks[i]
        c == calls[i]
        look == LooksUpFor(force)
        hit_sr == IF look THEN CacheGet(cache0.scrape, b.url) ELSE None
        sr == IF hit_sr # None THEN hit_sr ELSE ScrapeResult(b.url, i)
        hit_md == IF look THEN CacheGet(cache0.llm, b.url) ELSE None
        md == IF hit_md # None THEN hit_md ELSE LLMMetadata(sr.url, sr.text, i)
    IN
    IF look /\ c.get_scrape = "error" THEN UnexpectedResult(i, "CacheError")
    ELSE IF hit_sr = None /\ scraper = "None"
        THEN UnexpectedResult(i, "Scraper not initialized")
    ELSE IF hit_sr = None /\ c.fetch = "ScraperError"
        THEN ScrapingFailed(i, "ScraperError")
    ELSE IF hit_sr = None /\ c.fetch = "Exception" THEN UnexpectedResult(i, "Exception")
    ELSE IF hit_sr = None /\ use_cache /\ c.store_scrape = "error"
        THEN UnexpectedResult(i, "CacheError")
    ELSE IF look /\ c.get_llm = "error" THEN UnexpectedResult(i, "CacheError")
    ELSE IF hit_md # None THEN SuccessResult(i, sr, hit_md, TRUE)
    ELSE IF llm_service = "None" THEN UnexpectedResult(i, "LLM service not initialized")
    ELSE IF c.generate = "LLMError" THEN LLMFailed(i, sr, "LLMError")
    ELSE IF c.generate = "Exception" THEN UnexpectedResult(i, "Exception")
    ELSE IF use_cache /\ c.store_llm = "error" THEN UnexpectedResult(i, "CacheError")
    ELSE SuccessResult(i, sr, md, hit_sr # None)

\* process_bookmarks([bookmarks[i]]) with the same callback behaviour: the
\* one entry of its result list (lines 218-248).
BatchOfOne(i, force) ==
    IF calls[i].callback = "raised"
    THEN TaskFailed(i, "callback")
    ELSE ProcessBookmarkAlone(i, force)

\* What an earlier run may have left in a table for a url.
OldScrape(u) == ScrapeResult(u, 0)

OldLLM(u) == LLMMetadata(u, 0, 0)

\* The table scrape_results holding the earlier runs' contents of the urls in S.
ScrapeTable(S) ==
    [k \in Keys |-> IF \E u \in S : HashUrl(u) = k
                    THEN OldScrape(CHOOSE u \in S : HashUrl(u) = k)
                    ELSE None]

\* The table llm_metadata holding the earlier runs' metadata of the urls in M.
LLMTable(M) ==
    [k \in Keys |-> IF \E u \in M : HashUrl(u) = k
                    THEN OldLLM(CHOOSE u \in M : HashUrl(u) = k)
                    ELSE None]

\* A caller that is in no CacheManager call.
NoCall == [m |-> "-", op |-> "-", arg |-> None, pc |-> "idle", n |-> 0,
           acc |-> <<>>, stored_then |-> None, result |-> None]

Managers == {"m1", "m2"}

Callers == {"c1", "c2"}

Kinds == {"scrape_results", "llm_metadata"}

\* cache.py at rest: a file without tables, no CacheManager call under way.
CacheIdle ==
    /\ db_tables = {}
    /\ db_scrape = {}
    /\ db_llm = {}
    /\ cm_initialized = [m \in Managers |-> FALSE]
    /\ cm_call = [c \in Callers |-> NoCall]
    /\ cm_stored = [k \in Kinds |-> [u \in URLS |-> None]]
    /\ cm_ops = 0

\* llm.py at rest: no title_desc call under way.
LLMIdle ==
    /\ max_retries = 0
    /\ attempt = 0
    /\ llm_pc = "idle"
    /\ llm_outcome = None
    /\ remote = <<>>
    /\ sleeps = <<>>

\* llm.py at rest: no propose_taxonomy call under way.
TaxonomyIdle ==
    /\ tax_max_retries = 0
    /\ tax_input = 0
    /\ tax_attempt = 0
    /\ tax_pc = "idle"
    /\ tax_outcome = None
    /\ tax_sleeps = <<>>

\* llm.py: no response parsed.
FieldsIdle ==
    /\ parsed_data = None
    /\ built_metadata = None

\* The WebScraper's session: the fields that starting and closing change.
Session == [playwright_scraper |-> ws_playwright_scraper,
            browser |-> pw_browser, context |-> pw_context]

\* No fetch under way and none made.
NoFetch ==
    /\ fetch_pc = "idle"
    /\ fetch_url = "-"
    /\ fetch_retry = TRUE
    /\ fetch_session = None
    /\ fetch_outcome = None
    /\ fetch_calls = <<>>
    /\ fetches = <<>>

\* scraper.py at rest: a WebScraper as constructed and not used
\* (lines 246-254), held by no processor.
ScraperIdle ==
    /\ ws_use_playwright = TRUE
    /\ ws_playwright_scraper = "None"
    /\ pw_browser = "None"
    /\ pw_context = "None"
    /\ ws_ctx = "new"
    /\ ws_enters = 0
    /\ ws_exits = 0
    /\ NoFetch
    /\ supplied = FALSE
    /\ processor_ctx = "none"
    /\ ws0 = None

\* scraper.py: no text extracted.
TextIdle ==
    /\ text_strategy = "-"
    /\ text_path = "-"
    /\ text_in = <<>>
    /\ text_out = None

\* controller.py: process_bookmarks_to_metadata has not returned.
ControllerIdle ==
    /\ metadata_list = None
    /\ errors = <<>>

\* persistence.py at rest: no PersistenceManager, nothing executed.
PersistenceIdle ==
    /\ pm_configured = FALSE
    /\ pm_dry_run = TRUE
    /\ plist_exists = FALSE
    /\ os_effects = <<>>
    /\ pm_calls = <<>>

\* controller.py: no BookmarkController over the processor.
ContextIdle ==
    /\ ctl_given = FALSE
    /\ ctl_manages = FALSE
    /\ ctl_ctx = "none"

\* scraper.py: no PlaywrightScraper.fetch called, no page created.
PagesIdle ==
    /\ pg_fetch = <<>>
    /\ pg_open = {}
    /\ pg_pages = 0

\* tree_builder.py: a TaxonomyParser as constructed (lines 29-33).
ParserIdle ==
    /\ tp_processed_urls = {}
    /\ tp_missing_bookmarks = {}
    /\ tp_duplicate_bookmarks = <<>>
    /\ tp_input = None
    /\ tp_result = None
    /\ tp_calls = 0

\* The other calls and modules at rest.
OthersIdle ==
    /\ TaxonomyIdle /\ FieldsIdle /\ ScraperIdle /\ TextIdle /\ ControllerIdle
    /\ PersistenceIdle /\ ContextIdle /\ PagesIdle /\ ParserIdle

\* The processor as constructed (lines 51-71) over a cache of earlier runs.
Init ==
    /\ CacheIdle
    /\ LLMIdle
    /\ OthersIdle
    /\ use_cache \in BOOLEAN
    /\ scraper \in {"None", "WebScraper"}
    /\ llm_service \in {"None", "LLMService"}
    /\ \E S \in SUBSET URLS, M \in SUBSET URLS :
        /\ cache_scrape = ScrapeTable(S)
        /\ cache_llm = LLMTable(M)
        /\ cache0 = [scrape |-> ScrapeTable(S), llm |-> LLMTable(M)]
    /\ cache_ops = {}
    /\ batch = "idle"
    /\ bookmarks = <<>>
    /\ concurrency = 0
    /\ force_refresh = FALSE
    /\ has_callback = FALSE
    /\ sem = 0
    /\ completed = 0
    /\ pc = <<>>
    /\ scrape_result = <<>>
    /\ llm_metadata = <<>>
    /\ used_cache = <<>>
    /\ returned = <<>>
    /\ results = <<>>
    /\ processed_results = <<>>
    /\ calls = <<>>
    /\ finished = <<>>
    /\ progress = <<>>

Next ==
    \/ AEnter
    \/ ProcessBookmarks
    \/ \E i \in Tasks : Acquire(i)
    \/ \E i \in Tasks : GetScrape(i)
    \/ \E i \in Tasks : Fetch(i)
    \/ \E i \in Tasks : StoreScrape(i)
    \/ \E i \in Tasks : GetLLM(i)
    \/ \E i \in Tasks : Generate(i)
    \/ \E i \in Tasks : StoreLLM(i)
    \/ Gather

Spec == Init /\ [][Next]_vars

\* One step of task i of the batch (process_with_semaphore, lines 218-228).
TaskStep(i) ==
    /\ i \in Tasks
    /\ \/ Acquire(i) \/ GetScrape(i) \/ Fetch(i) \/ StoreScrape(i)
       \/ GetLLM(i) \/ Generate(i) \/ StoreLLM(i)

\* The event loop runs every task that can run, every awaited collaborator or
\* cache call returns or raises, and gather returns once every task is done.
FairSpec ==
    /\ Spec
    /\ \A i \in 1..MaxBookmarks : WF_vars(TaskStep(i))
    /\ WF_vars(Gather)

\* ------------------------------------------------- cache.py: CacheManager
MaxCacheOps == 2

\* pipeline.py at rest but for the processor's collaborators: no batch, an
\* empty cache.
PipelineAtRest ==
    /\ use_cache = TRUE
    /\ cache_scrape = ScrapeTable({})
    /\ cache_llm = LLMTable({})
    /\ cache0 = [scrape |-> ScrapeTable({}), llm |-> LLMTable({})]
    /\ cache_ops = {}
    /\ batch = "idle"
    /\ bookmarks = <<>>
    /\ concurrency = 0
    /\ force_refresh = FALSE
    /\ has_callback = FALSE
    /\ sem = 0
    /\ completed = 0
    /\ pc = <<>>
    /\ scrape_result = <<>>
    /\ llm_metadata = <<>>
    /\ used_cache = <<>>
    /\ returned = <<>>
    /\ results = <<>>
    /\ processed_results = <<>>
    /\ calls = <<>>
    /\ finished = <<>>
    /\ progress = <<>>

\* pipeline.py at rest: a processor on which nothing is called.
PipelineIdle ==
    /\ scraper = "None"
    /\ llm_service = "None"
    /\ PipelineAtRest

\* The parameter tuples of the two INSERTs (lines 105 and 148): url_hash, url,
\* then the value's other columns (text stands for text and html_title, or for
\* name and description; gen for tokens_used).
ScrapeRow(result) == <<HashUrl(result.url), result.url, result.text>>

LLMRow(metadata) == <<HashUrl(metadata.url), metadata.url, metadata.text, metadata.gen>>

\* The values built from a selected row (lines 84-88 and 126-131); the SELECTs
\* do not fetch url_hash, so row[0] of the code is the url.
ScrapeFromRow(row) == ScrapeResult(row[1], row[2])

LLMFromRow(row) == LLMMetadata(row[1], row[2], row[3])

\* SELECT <the columns but url_hash> ... WHERE url_hash = h
SelectWhereHash(rows, h) == {Tail(r) : r \in {x \in rows : x[1] = h}}

\* Mutant: INSERT OR IGNORE, a row already there for the key is kept.
InsertOrIgnore(rows, row) ==
    IF \E r \in rows : r[1] = row[1] THEN rows ELSE rows \cup {row}

\* INSERT OR REPLACE on the PRIMARY KEY url_hash: a row with the same key is
\* deleted, then the new row inserted.
InsertOrReplace(rows, row) == {r \in rows : r[1] # row[1]} \cup {row}

\* Mutant: the table is dropped and created anew.
CreateTableAfresh(tables, name, rows) == {}

\* The rows of table `name` after CREATE TABLE IF NOT EXISTS name: an existing
\* table is left as it is, a new one is empty.
CreateTableIfNotExists(tables, name, rows) == IF name \in tables THEN rows ELSE {}

\* The statements of initialize, in order (lines 33-56).
DDL ==
    << [stmt |-> "CREATE TABLE IF NOT EXISTS", name |-> "scrape_results", on |-> "-"],
       [stmt |-> "CREATE TABLE IF NOT EXISTS", name |-> "llm_metadata", on |-> "-"],
       [stmt |-> "CREATE INDEX IF NOT EXISTS", name |-> "idx_scrape_url",
        on |-> "scrape_results"],
       [stmt |-> "CREATE INDEX IF NOT EXISTS", name |-> "idx_llm_url",
        on |-> "llm_metadata"] >>

\* SUM(tokens_used) over the rows of llm_metadata.
RECURSIVE SumTokens(_)
SumTokens(rows) ==
    IF rows = {} THEN 0
    ELSE LET r == CHOOSE x \in rows : TRUE IN r[4] + SumTokens(rows \ {r})

\* How a call ends.
Returns(v) == [kind |-> "return", value |-> v]

Raises(e) == [kind |-> "raise", e |-> e]

\* The calls a caller can make on a CacheManager; the n-th call of the run, if
\* it stores, stores content n for its url.
CallArgs(n) ==
    {[op |-> o, arg |-> None] : o \in {"initialize", "clear_cache", "get_cache_stats"}}
    \cup {[op |-> "get_scrape_result", arg |-> [kind |-> "str", url |-> u]] : u \in URLS}
    \cup {[op |-> "get_llm_metadata", arg |-> [kind |-> "str", url |-> u]] : u \in URLS}
    \cup {[op |-> "store_scrape_result", arg |-> ScrapeResult(u, n)] : u \in URLS}
    \cup {[op |-> "store_llm_metadata", arg |-> LLMMetadata(u, n, n)] : u \in URLS}

\* The CacheManagers a call can be made on: they are alike, so the first call
\* of a run is made on m1.
CallManagers == IF cm_ops = 0 THEN {"m1"} ELSE Managers

\* Caller c's call goes on to `next`.
CallGoes(c, next) == cm_call' = [cm_call EXCEPT ![c].pc = next]

\* Caller c's call ends with `result`.
CallEnds(c, result) ==
    cm_call' = [cm_call EXCEPT ![c].pc = "returned", ![c].result = result]

\* Once initialize is through, the method's own statements run; the method
\* initialize itself returns.
AfterInitialize(c) ==
    IF cm_call[c].op = "initialize"
    THEN CallEnds(c, Returns(None))
    ELSE CallGoes(c, cm_call[c].op)

\* A caller calls a method of a CacheManager; each begins with
\* `await self.initialize()` (lines 75, 97, 117, 140, 153, 166).
CacheCall(c) ==
    /\ cm_call[c].pc = "idle"
    /\ cm_ops < MaxCacheOps
    /\ \E m \in CallManagers, a \in CallArgs(cm_ops + 1) :
        cm_call' = [cm_call EXCEPT ![c] =
                       [NoCall EXCEPT !.m = m, !.op = a.op, !.arg = a.arg,
                                      !.pc = "initialize"]]
    /\ cm_ops' = cm_ops + 1
    /\ UNCHANGED <<db_tables, db_scrape, db_llm, cm_initialized, cm_stored>>
    /\ UNCHANGED <<pipeline_vars, llm_vars, other_vars>>

\* initialize: `if self._initialized: return`, else the connection is opened
\* (lines 29-32).
initialize(c) ==
    /\ cm_call[c].pc = "initialize"
    /\ IF cm_initialized[cm_call[c].m]
       THEN AfterInitialize(c)
       ELSE cm_call' = [cm_call EXCEPT ![c].pc = "ddl", ![c].n = 1]
    /\ UNCHANGED <<db_tables, db_scrape, db_llm, cm_initialized, cm_stored, cm_ops>>
    /\ UNCHANGED <<pipeline_vars, llm_vars, other_vars>>

\* initialize: one `await db.execute(...)` of lines 33-56.
initialize_execute(c) ==
    /\ cm_call[c].pc = "ddl"
    /\ LET st == DDL[cm_call[c].n]
           next == IF cm_call[c].n = Len(DDL)
                   THEN [cm_call EXCEPT ![c].pc = "commit"]
                   ELSE [cm_call EXCEPT ![c].n = @ + 1]
       IN
       IF st.stmt = "CREATE TABLE IF NOT EXISTS"
       THEN /\ db_tables' = db_tables \cup {st.name}
            /\ db_scrape' = IF st.name = "scrape_results"
                            THEN CreateTableIfNotExists(db_tables, st.name, db_scrape)
                            ELSE db_scrape
            /\ db_llm' = IF st.name = "llm_metadata"
                         THEN CreateTableIfNotExists(db_tables, st.name, db_llm)
                         ELSE db_llm
            /\ cm_call' = next
       ELSE /\ IF st.on \in db_tables
               THEN /\ db_tables' = db_tables \cup {st.name}
                    /\ cm_call' = next
               ELSE /\ CallEnds(c, Raises("no such table"))
                    /\ UNCHANGED db_tables
            /\ UNCHANGED <<db_scrape, db_llm>>
    /\ UNCHANGED <<cm_initialized, cm_stored, cm_ops>>
    /\ UNCHANGED <<pipeline_vars, llm_vars, other_vars>>

\* initialize: the commit, the connection closed, `self._initialized = True`
\* (lines 58-60).
initialize_commit(c) ==
    /\ cm_call[c].pc = "commit"
    /\ cm_initialized' = [cm_initialized EXCEPT ![cm_call[c].m] = TRUE]
    /\ AfterInitialize(c)
    /\ UNCHANGED <<db_tables, db_scrape, db_llm, cm_stored, cm_ops>>
    /\ UNCHANGED <<pipeline_vars, llm_vars, other_vars>>

\* get_scrape_result: the SELECT and fetchone (lines 76-89).
get_scrape_result(c) ==
    /\ cm_call[c].pc = "get_scrape_result"
    /\ IF "scrape_results" \notin db_tables
       THEN CallEnds(c, Raises("no such table"))
       ELSE LET sel == SelectWhereHash(db_scrape, HashUrl(cm_call[c].arg.url))
                row == CHOOSE r \in sel : TRUE
            IN cm_call' = [cm_call EXCEPT
                   ![c].pc = "returned",
                   ![c].stored_then = cm_stored["scrape_results"][cm_call[c].arg.url],
                   ![c].result = Returns(IF sel = {} THEN None ELSE ScrapeFromRow(row))]
    /\ UNCHANGED <<db_tables, db_scrape, db_llm, cm_initialized, cm_stored, cm_ops>>
    /\ UNCHANGED <<pipeline_vars, llm_vars, other_vars>>

\* store_scrape_result: the INSERT OR REPLACE and its commit (lines 98-106).
store_scrape_result(c) ==
    /\ cm_call[c].pc = "store_scrape_result"
    /\ IF "scrape_results" \notin db_tables
       THEN /\ CallEnds(c, Raises("no such table"))
            /\ UNCHANGED <<db_scrape, cm_stored>>
       ELSE /\ db_scrape' = InsertOrReplace(db_scrape, ScrapeRow(cm_call[c].arg))
            /\ cm_stored' = [cm_stored EXCEPT
                                !["scrape_results"][cm_call[c].arg.url] = cm_call[c].arg]
            /\ CallEnds(c, Returns(None))
    /\ UNCHANGED <<db_tables, db_llm, cm_initialized, cm_ops>>
    /\ UNCHANGED <<pipeline_vars, llm_vars, other_vars>>

\* get_llm_metadata: the SELECT and fetchone (lines 118-132).
get_llm_metadata(c) ==
    /\ cm_call[c].pc = "get_llm_metadata"
    /\ IF "llm_metadata" \notin db_tables
       THEN CallEnds(c, Raises("no such table"))
       ELSE LET sel == SelectWhereHash(db_llm, HashUrl(cm_call[c].arg.url))
                row == CHOOSE r \in sel : TRUE
            IN cm_call' = [cm_call EXCEPT
                   ![c].pc = "returned",
                   ![c].stored_then = cm_stored["llm_metadata"][cm_call[c].arg.url],
                   ![c].result = Returns(IF sel = {} THEN None ELSE LLMFromRow(row))]
    /\ UNCHANGED <<db_tables, db_scrape, db_llm, cm_initialized, cm_stored, cm_ops>>
    /\ UNCHANGED <<pipeline_vars, llm_vars, other_vars>>

\* store_llm_metadata: the INSERT OR REPLACE and its commit (lines 141-149).
store_llm_metadata(c) ==
    /\ cm_call[c].pc = "store_llm_metadata"
    /\ IF "llm_metadata" \notin db_tables
       THEN /\ CallEnds(c, Raises("no such table"))
            /\ UNCHANGED <<db_llm, cm_stored>>
       ELSE /\ db_llm' = InsertOrReplace(db_llm, LLMRow(cm_call[c].arg))
            /\ cm_stored' = [cm_stored EXCEPT
                                !["llm_metadata"][cm_call[c].arg.url] = cm_call[c].arg]
            /\ CallEnds(c, Returns(None))
    /\ UNCHANGED <<db_tables, db_scrape, cm_initialized, cm_ops>>
    /\ UNCHANGED <<pipeline_vars, llm_vars, other_vars>>

\* clear_cache: the two DELETEs made visible by one commit (lines 155-158).
clear_cache(c) ==
    /\ cm_call[c].pc = "clear_cache"
    /\ IF {"scrape_results", "llm_metadata"} \subseteq db_tables
       THEN /\ db_scrape' = {}
            /\ db_llm' = {}
            /\ cm_stored' = [k \in Kinds |-> [u \in URLS |-> None]]
            /\ CallEnds(c, Returns(None))
       ELSE /\ CallEnds(c, Raises("no such table"))
            /\ UNCHANGED <<db_scrape, db_llm, cm_stored>>
    /\ UNCHANGED <<db_tables, cm_initialized, cm_ops>>
    /\ UNCHANGED <<pipeline_vars, llm_vars, other_vars>>

\* get_cache_stats: one of its three SELECTs, the third followed by the
\* return (lines 168-185).
get_cache_stats(c) ==
    /\ cm_call[c].pc = "get_cache_stats"
    /\ LET k == Len(cm_call[c].acc) + 1
           table == IF k = 1 THEN "scrape_results" ELSE "llm_metadata"
           value == CASE k = 1 -> Cardinality(db_scrape)
                      [] k = 2 -> Cardinality(db_llm)
                      [] OTHER -> SumTokens(db_llm)
           acc == Append(cm_call[c].acc, value)
       IN
       IF table \notin db_tables
       THEN CallEnds(c, Raises("no such table"))
       ELSE IF k < 3
       THEN cm_call' = [cm_call EXCEPT ![c].acc = acc]
       ELSE cm_call' = [cm_call EXCEPT
                ![c].pc = "returned",
                ![c].acc = acc,
                ![c].result = Returns([scrape_results_count |-> acc[1],
                                       llm_metadata_count |-> acc[2],
                                       total_tokens_used |-> acc[3]])]
    /\ UNCHANGED <<db_tables, db_scrape, db_llm, cm_initialized, cm_stored, cm_ops>>
    /\ UNCHANGED <<pipeline_vars, llm_vars, other_vars>>

\* The caller has the call's result and is free for its next call.
CacheReturn(c) ==
    /\ cm_call[c].pc = "returned"
    /\ cm_call' = [cm_call EXCEPT ![c] = NoCall]
    /\ UNCHANGED <<db_tables, db_scrape, db_llm, cm_initialized, cm_stored, cm_ops>>
    /\ UNCHANGED <<pipeline_vars, llm_vars, other_vars>>

\* The schema initialize creates.
Schema == {DDL[n].name : n \in 1..Len(DDL)}

\* A new database file, or the file an earlier run left with the entries of u1.
CacheInit ==
    /\ PipelineIdle
    /\ LLMIdle
    /\ OthersIdle
    /\ \/ CacheIdle
       \/ /\ db_tables = Schema
          /\ db_scrape = {ScrapeRow(OldScrape("u1"))}
          /\ db_llm = {LLMRow(OldLLM("u1"))}
          /\ cm_initialized = [m \in Managers |-> FALSE]
          /\ cm_call = [c \in Callers |-> NoCall]
          /\ cm_stored = [k \in Kinds |-> [u \in URLS |->
                            IF u # "u1" THEN None
                            ELSE IF k = "scrape_results" THEN OldScrape(u) ELSE OldLLM(u)]]
          /\ cm_ops = 0

CacheNext ==
    \/ \E c \in Callers : CacheCall(c)
    \/ \E c \in Callers : initialize(c)
    \/ \E c \in Callers : initialize_execute(c)
    \/ \E c \in Callers : initialize_commit(c)
    \/ \E c \in Callers : get_scrape_result(c)
    \/ \E c \in Callers : store_scrape_result(c)
    \/ \E c \in Callers : get_llm_metadata(c)
    \/ \E c \in Callers : store_llm_metadata(c)
    \/ \E c \in Callers : clear_cache(c)
    \/ \E c \in Callers : get_cache_stats(c)
    \/ \E c \in Callers : CacheReturn(c)

CacheSpec == CacheInit /\ [][CacheNext]_vars

\* ------------------------------------------------ llm.py: LLMService.title_desc
MaxRetries == 3

\* LLMError(message)
LLMError(message) == [kind |-> "LLMError", message |-> message]

\* A remote call that raised an exception of class e.
RemoteRaises(e) == [kind |-> "raise", e |-> e]

\* A response: its choices (the message content of each) and its usage.
Response(choices, usage) == [kind |-> "response", choices |-> choices, usage |-> usage]

Usage(total_tokens) == [kind |-> "usage", total_tokens |-> total_tokens]

\* The contents a response may carry, well formed or not.
Contents ==
    {"", " ", "not json", "{}", "{\"name\": \"N\"}", "[\"name\", \"description\"]",
     "{\"name\": \"N\", \"description\": \"D\"}"}

\* What client.chat.completions.create can give: an exception of the openai
\* classes or of any other class, or a response.
RemoteResults ==
    {RemoteRaises(e) : e \in {"RateLimitError", "APITimeoutError", "APIError", "Exception"}}
    \cup {Response(<<>>, Usage(7))}
    \cup {Response(<<c>>, Usage(7)) : c \in Contents}
    \cup {Response(<<"{\"name\": \"N\", \"description\": \"D\"}">>, None)}

\* str.strip() on the contents above.
Strip(content) == IF content = " " THEN "" ELSE content

\* json.loads on the contents above: the parsed value, or JSONDecodeError.
JsonLoads(content) ==
    CASE content = "{}" -> [type |-> "dict", keys |-> {}, items |-> <<>>]
      [] content = "{\"name\": \"N\"}" ->
            [type |-> "dict", keys |-> {"name"}, items |-> [name |-> "N"]]
      [] content = "{\"name\": \"N\", \"description\": \"D\"}" ->
            [type |-> "dict", keys |-> {"name", "description"},
             items |-> [name |-> "N", description |-> "D"]]
      [] content = "[\"name\", \"description\"]" ->
            [type |-> "list", keys |-> {"name", "description"},
             items |-> <<"name", "description">>]
      [] OTHER -> [type |-> "JSONDecodeError", keys |-> {}, items |-> <<>>]

\* The body of the try (lines 111-149) on the remote call's result: what it
\* returns, or the exception it raises and the message it carries.
TryBody(url, r) ==
    IF r.kind = "raise" THEN [kind |-> "raise", e |-> r.e, message |-> r.e]
    ELSE IF r.choices = <<>> \/ r.choices[1] = ""
    THEN [kind |-> "raise", e |-> "LLMError", message |-> "Empty response from OpenAI"]
    ELSE LET content == Strip(r.choices[1])
             tokens_used == IF r.usage # None THEN r.usage.total_tokens ELSE 0
             result_data == JsonLoads(content)
         IN
         IF result_data.type = "JSONDecodeError"
         THEN [kind |-> "raise", e |-> "LLMError", message |-> "Invalid JSON response: "]
         ELSE IF "name" \notin result_data.keys \/ "description" \notin result_data.keys
         THEN [kind |-> "raise", e |-> "LLMError",
               message |-> "Response missing required fields 'name' or 'description'"]
         ELSE IF result_data.type # "dict"
         THEN [kind |-> "raise", e |-> "Exception", message |-> "TypeError"]
         ELSE [kind |-> "return",
               value |-> LLMMetadata(url, <<result_data.items.name,
                                            result_data.items.description>>, tokens_used)]

\* Mutant: no `except openai.APIError` clause, the error falls to `except Exception`.
HandlerWithoutAPIError(e) ==
    IF e \in {"RateLimitError", "APITimeoutError"} THEN e ELSE "Exception"

\* Mutant: an `except LLMError: raise` clause before the others.
HandlerReraisingLLMError(e) ==
    IF e \in {"RateLimitError", "APITimeoutError", "APIError", "LLMError"} THEN e
    ELSE "Exception"

\* The except clause that catches an exception of class e (lines 151-175):
\* LLMError is no openai error, `except Exception` catches it.
Handler(e) ==
    IF e \in {"RateLimitError", "APITimeoutError", "APIError"} THEN e ELSE "Exception"

\* The clauses that sleep and `continue` while attempts are left.
RetryingClauses == {"RateLimitError", "APITimeoutError", "Exception"}

\* Mutant: the retry test is off by one, the last attempt sleeps too.
HasRetryOffByOne(a) == a < max_retries

\* `if attempt < self.max_retries - 1`
HasRetry(a) == a < max_retries - 1

\* The sleep before the retry, in tenths of a second (lines 155-156, 165, 178).
Delay(clause, a) == IF clause = "RateLimitError" THEN 10 * (2 ^ a) + a ELSE 10

\* Mutant: the unexpected exception is raised again as it is.
ExhaustedReraising(clause, message) ==
    CASE clause = "RateLimitError" ->
            LLMError("Rate limit exceeded after " \o ToString(max_retries) \o " attempts")
      [] clause = "APITimeoutError" ->
            LLMError("Request timeout after " \o ToString(max_retries) \o " attempts")
      [] clause = "APIError" -> LLMError("OpenAI API error: " \o message)
      [] OTHER -> [kind |-> "Exception", message |-> message]

\* The LLMError a clause raises when it does not retry (lines 158-160,
\* 167-169, 173, 180).
Exhausted(clause, message) ==
    CASE clause = "RateLimitError" ->
            LLMError("Rate limit exceeded after " \o ToString(max_retries) \o " attempts")
      [] clause = "APITimeoutError" ->
            LLMError("Request timeout after " \o ToString(max_retries) \o " attempts")
      [] clause = "APIError" -> LLMError("OpenAI API error: " \o message)
      [] OTHER -> LLMError("Failed to generate metadata: " \o message)

\* The raise after the loop (line 183).
LoopExhausted ==
    LLMError("Failed to generate metadata after " \o ToString(max_retries) \o " attempts")

\* title_desc is called on a service with some max_retries and no call under
\* way: the text is truncated, the prompt rendered, and the loop entered
\* (lines 96-109).
TitleDesc ==
    /\ llm_pc \in {"idle", "returned", "raised"}
    /\ \E n \in 0..MaxRetries :
        /\ max_retries' = n
        /\ attempt' = 0
        /\ remote' = <<>>
        /\ sleeps' = <<>>
        /\ IF 0 < n
           THEN llm_pc' = "create" /\ llm_outcome' = None
           ELSE /\ llm_pc' = "raised"
                /\ llm_outcome' =
                     Raises(LLMError("Failed to generate metadata after "
                                     \o ToString(n) \o " attempts"))
    /\ UNCHANGED <<pipeline_vars, cache_vars, other_vars>>

\* One pass of the loop body: the remote call and what the try and its except
\* clauses make of the result (lines 110-180).
Create ==
    /\ llm_pc = "create"
    /\ \E r \in RemoteResults :
        LET t == TryBody("u1", r)
            clause == Handler(t.e)
        IN
        /\ remote' = Append(remote, r)
        /\ IF t.kind = "return"
           THEN /\ llm_pc' = "returned"
                /\ llm_outcome' = Returns(t.value)
                /\ UNCHANGED sleeps
           ELSE IF clause \in RetryingClauses /\ HasRetry(attempt)
           THEN /\ llm_pc' = "sleep"
                /\ sleeps' = Append(sleeps, [clause |-> clause, attempt |-> attempt,
                                             delay |-> Delay(clause, attempt)])
                /\ UNCHANGED llm_outcome
           ELSE /\ llm_pc' = "raised"
                /\ llm_outcome' = Raises(Exhausted(clause, t.message))
                /\ UNCHANGED sleeps
    /\ UNCHANGED <<max_retries, attempt>>
    /\ UNCHANGED <<pipeline_vars, cache_vars, other_vars>>

\* asyncio.sleep returns and `continue` takes the loop to its next attempt,
\* or past its end (lines 109 and 183).
Sleep ==
    /\ llm_pc = "sleep"
    /\ attempt' = attempt + 1
    /\ IF attempt + 1 < max_retries
       THEN llm_pc' = "create" /\ UNCHANGED llm_outcome
       ELSE llm_pc' = "raised" /\ llm_outcome' = Raises(LoopExhausted)
    /\ UNCHANGED <<max_retries, remote, sleeps>>
    /\ UNCHANGED <<pipeline_vars, cache_vars, other_vars>>

LLMInit == PipelineIdle /\ CacheIdle /\ LLMIdle /\ OthersIdle

LLMNext == TitleDesc \/ Create \/ Sleep

LLMSpec == LLMInit /\ [][LLMNext]_vars

\* ------------------------------------------ llm.py: LLMService.propose_taxonomy
\* What the taxonomy call's steps leave alone.
outside_taxonomy ==
    <<pipeline_vars, cache_vars, llm_vars, field_vars, scraper_vars, lifecycle_vars,
      text_vars, controller_vars, more_vars>>

\* The contents a taxonomy response may carry, well formed or not.
TaxonomyContents ==
    {"", "not json", "{}", "{\"folders\": {}}", "[\"folders\"]", "{\"folders\": []}"}

TaxonomyRemoteResults ==
    {RemoteRaises(e) : e \in {"RateLimitError", "APITimeoutError", "APIError", "Exception"}}
    \cup {Response(<<>>, Usage(7))}
    \cup {Response(<<c>>, Usage(7)) : c \in TaxonomyContents}

\* json.loads on the contents above: the parsed value, or JSONDecodeError.
TaxonomyJsonLoads(content) ==
    CASE content = "{}" -> [type |-> "dict", keys |-> {}, folders |-> "-"]
      [] content = "{\"folders\": {}}" ->
            [type |-> "dict", keys |-> {"folders"}, folders |-> "dict"]
      [] content = "{\"folders\": []}" ->
            [type |-> "dict", keys |-> {"folders"}, folders |-> "list"]
      [] content = "[\"folders\"]" ->
            [type |-> "list", keys |-> {"folders"}, folders |-> "-"]
      [] OTHER -> [type |-> "JSONDecodeError", keys |-> {}, folders |-> "-"]

\* The body of the try (lines 229-268) on the remote call's result: what it
\* returns, or the exception it raises and the message it carries.
TaxonomyTryBody(r) ==
    IF r.kind = "raise" THEN [kind |-> "raise", e |-> r.e, message |-> r.e]
    ELSE IF r.choices = <<>> \/ r.choices[1] = ""
    THEN [kind |-> "raise", e |-> "LLMError", message |-> "Empty response from OpenAI"]
    ELSE LET content == Strip(r.choices[1])
             tokens_used == IF r.usage # None THEN r.usage.total_tokens ELSE 0
             taxonomy_data == TaxonomyJsonLoads(content)
         IN
         IF taxonomy_data.type = "JSONDecodeError"
         THEN [kind |-> "raise", e |-> "LLMError", message |-> "Invalid JSON response: "]
         ELSE IF "folders" \notin taxonomy_data.keys
         THEN [kind |-> "raise", e |-> "LLMError",
               message |-> "Response missing required 'folders' field"]
         ELSE IF taxonomy_data.type # "dict"
         THEN [kind |-> "raise", e |-> "Exception", message |-> "TypeError"]
         ELSE IF taxonomy_data.folders # "list"
         THEN [kind |-> "raise", e |-> "LLMError",
               message |-> "'folders' field must be a list"]
         ELSE [kind |-> "return",
               value |-> [kind |-> "dict", folders |-> <<>>,
                          metadata |-> [tokens_used |-> tokens_used,
                                        input_count |-> tax_input]]]

\* Mutant: the taxonomy call sleeps as the single-item call does.
TaxonomyDelayAsTitleDesc(clause, a) == Delay(clause, a)

\* The sleep before the retry, in tenths of a second (lines 276-277, 286, 299).
TaxonomyDelay(clause, a) == IF clause = "RateLimitError" THEN 10 * (2 ^ a) + a ELSE 20

\* The LLMError a clause raises when it does not retry (lines 279-281,
\* 288-290, 294, 301).
TaxonomyExhausted(clause, message) ==
    CASE clause = "RateLimitError" ->
            LLMError("Rate limit exceeded after " \o ToString(tax_max_retries) \o " attempts")
      [] clause = "APITimeoutError" ->
            LLMError("Request timeout after " \o ToString(tax_max_retries) \o " attempts")
      [] clause = "APIError" -> LLMError("OpenAI API error: " \o message)
      [] OTHER -> LLMError("Failed to generate taxonomy: " \o message)

\* The bound on len(metadata_list).
MaxMetadata == 1

\* propose_taxonomy is called on a service with some max_retries and no call
\* under way: an empty list is answered at once, otherwise the prompt is
\* rendered and the loop entered (lines 216-227, 304).
ProposeTaxonomy ==
    /\ tax_pc \in {"idle", "returned", "raised"}
    /\ \E n \in 0..MaxRetries, len \in 0..MaxMetadata :
        /\ tax_max_retries' = n
        /\ tax_input' = len
        /\ tax_attempt' = 0
        /\ tax_sleeps' = <<>>
        /\ IF len = 0
           THEN /\ tax_pc' = "returned"
                /\ tax_outcome' = Returns([kind |-> "dict", folders |-> <<>>,
                                           metadata |-> None])
           ELSE IF 0 < n
           THEN tax_pc' = "create" /\ tax_outcome' = None
           ELSE /\ tax_pc' = "raised"
                /\ tax_outcome' =
                     Raises(LLMError("Failed to generate taxonomy after "
                                     \o ToString(n) \o " attempts"))
    /\ UNCHANGED outside_taxonomy

\* One pass of the loop body: the remote call and what the try and its except
\* clauses make of the result (lines 228-301).
TaxonomyCreate ==
    /\ tax_pc = "create"
    /\ \E r \in TaxonomyRemoteResults :
        LET t == TaxonomyTryBody(r)
            clause == Handler(t.e)
        IN
        IF t.kind = "return"
        THEN /\ tax_pc' = "returned"
             /\ tax_outcome' = Returns(t.value)
             /\ UNCHANGED tax_sleeps
        ELSE IF clause \in RetryingClauses /\ tax_attempt < tax_max_retries - 1
        THEN /\ tax_pc' = "sleep"
             /\ tax_sleeps' = Append(tax_sleeps,
                                     [clause |-> clause, attempt |-> tax_attempt,
                                      delay |-> TaxonomyDelay(clause, tax_attempt)])
             /\ UNCHANGED tax_outcome
        ELSE /\ tax_pc' = "raised"
             /\ tax_outcome' = Raises(TaxonomyExhausted(clause, t.message))
             /\ UNCHANGED tax_sleeps
    /\ UNCHANGED <<tax_max_retries, tax_input, tax_attempt>>
    /\ UNCHANGED outside_taxonomy

\* asyncio.sleep returns and `continue` takes the loop to its next attempt,
\* or past its end (lines 227 and 304).
TaxonomySleep ==
    /\ tax_pc = "sleep"
    /\ tax_attempt' = tax_attempt + 1
    /\ IF tax_attempt + 1 < tax_max_retries
       THEN tax_pc' = "create" /\ UNCHANGED tax_outcome
       ELSE /\ tax_pc' = "raised"
            /\ tax_outcome' =
                 Raises(LLMError("Failed to generate taxonomy after "
                                 \o ToString(tax_max_retries) \o " attempts"))
    /\ UNCHANGED <<tax_max_retries, tax_input, tax_sleeps>>
    /\ UNCHANGED outside_taxonomy

\* One LLMService asked for metadata and for a taxonomy.
GeneratorInit == LLMInit

GeneratorNext == TitleDesc \/ Create \/ Sleep \/ ProposeTaxonomy \/ TaxonomyCreate \/ TaxonomySleep

GeneratorSpec == GeneratorInit /\ [][GeneratorNext]_vars

\* ----------------------------------- llm.py: the fields of the built LLMMetadata
\* What building the metadata leaves alone.
outside_fields ==
    <<pipeline_vars, cache_vars, llm_vars, tax_vars, scraper_vars, lifecycle_vars,
      text_vars, controller_vars, more_vars>>

\* The maximum lengths enforced on name and description (lines 141-144).
MaxNameLength == 80

MaxDescriptionLength == 200

\* The longest value a response carries here.
MaxFieldLength == 300

\* A string of length len; its character at position i is i.
Chars(len) == [i \in 1..len |-> i]

\* The lengths of the values: around both maximum lengths, and the test's.
FieldLengths == {0, 1, 79, 80, 81, 150, 199, 200, 201, MaxFieldLength}

\* The JSON values a field of the response may hold: a string, or a number of
\* so many digits.
JsonValues ==
    {[type |-> "str", chars |-> Chars(len)] : len \in FieldLengths}
    \cup {[type |-> "int", chars |-> Chars(5)]}

\* str(value): the string itself, the digits of a number.
Str(value) == value.chars

\* Mutant: the slice keeps one character more.
SliceInclusive(s, n) == SubSeq(s, 1, IF Len(s) < n + 1 THEN Len(s) ELSE n + 1)

\* s[:n]
Slice(s, n) == SubSeq(s, 1, IF Len(s) < n THEN Len(s) ELSE n)

\* models.LLMMetadata with its fields.
LLMMetadataOf(url, name, description, tokens_used) ==
    [kind |-> "LLMMetadata", url |-> url, name |-> name,
     description |-> description, tokens_used |-> tokens_used]

\* The metadata is built from the parsed response and returned (lines 138-149).
BuildMetadata ==
    /\ parsed_data # None
    /\ built_metadata = None
    /\ built_metadata' =
            LLMMetadataOf("u1",
                          Slice(Str(parsed_data.name), MaxNameLength),
                          Slice(Str(parsed_data.description), MaxDescriptionLength),
                          7)
    /\ UNCHANGED parsed_data
    /\ UNCHANGED outside_fields

\* A response was parsed and holds both required fields (lines 128-136).
FieldInit ==
    /\ PipelineIdle /\ CacheIdle /\ LLMIdle /\ TaxonomyIdle /\ ScraperIdle /\ TextIdle
    /\ ControllerIdle /\ PersistenceIdle /\ ContextIdle /\ PagesIdle /\ ParserIdle
    /\ parsed_data \in [name : JsonValues, description : JsonValues]
    /\ built_metadata = None

FieldNext == BuildMetadata

FieldSpec == FieldInit /\ [][FieldNext]_vars

\* ------------------------------------------------------ scraper.py: WebScraper
\* The bound on the fetches made on one WebScraper.
MaxFetches == 2

ScraperError(message) == [kind |-> "ScraperError", message |-> message]

\* How PlaywrightScraper.start can end (lines 47-51): it returns, or one of
\* its three awaits raises.
StartAnswers == {"ok", "async_playwright", "launch", "new_context"}

\* How the page of a started browser can answer (lines 81-102), and how the
\* HTTP request can (lines 172-206).
PageAnswers == {"ok", "error"}

ClientAnswers == {"ok", "HTTPStatusError", "RequestError", "Exception"}

\* PlaywrightScraper.fetch (lines 62-115) on a context that is None, open or
\* closed: every exception of the try becomes a ScraperError.
PlaywrightFetch(url, answer) ==
    IF pw_context = "None"
    THEN Raises(ScraperError("Browser not started. Use async context manager."))
    ELSE IF pw_context = "open" /\ answer = "ok"
    THEN Returns(ScrapeResult(url, "playwright"))
    ELSE Raises(ScraperError("Playwright fetch failed: "))

\* HTTPXScraper.fetch (lines 156-206).
HTTPXFetch(url, answer) ==
    CASE answer = "ok" -> Returns(ScrapeResult(url, "httpx"))
      [] answer = "HTTPStatusError" -> Raises(ScraperError("HTTP 500: "))
      [] answer = "RequestError" -> Raises(ScraperError("Request failed: "))
      [] OTHER -> Raises(ScraperError("HTTPX fetch failed: "))

\* Mutant: the primary strategy's error is never raised again.
AfterPrimaryErrorAlwaysFallsBack(retry_with_fallback) == "fallback"

\* `if not retry_with_fallback: raise`, else on to the fallback (lines 288-295).
AfterPrimaryError(retry_with_fallback) ==
    IF ~retry_with_fallback THEN "raised" ELSE "fallback"

\* Mutant: close leaves the handle as it is.
CloseSkipped(handle) == handle

\* `if self._context: await self._context.close()` and the same for the
\* browser (lines 56-59).
Close(handle) == IF handle # "None" THEN "closed" ELSE "None"

\* WebScraper.__aenter__ (lines 256-263) with PlaywrightScraper.start
\* (lines 45-52) ending as `answer` says.
ScraperAEnter(answer) ==
    /\ ws_enters' = ws_enters + 1
    /\ IF ws_use_playwright
       THEN /\ ws_playwright_scraper' = "PlaywrightScraper"
            /\ pw_browser' = IF answer \in {"ok", "new_context"} THEN "open" ELSE "None"
            /\ pw_context' = IF answer = "ok" THEN "open" ELSE "None"
            /\ ws_ctx' = IF answer = "ok" THEN "entered" ELSE "enter_failed"
       ELSE /\ ws_ctx' = "entered"
            /\ UNCHANGED <<ws_playwright_scraper, pw_browser, pw_context>>
    /\ UNCHANGED <<ws_use_playwright, ws_exits>>

\* WebScraper.__aexit__ (lines 265-268) with PlaywrightScraper.close
\* (lines 54-60).
ScraperAExit ==
    /\ ws_exits' = ws_exits + 1
    /\ ws_ctx' = "exited"
    /\ IF ws_playwright_scraper # "None"
       THEN /\ pw_context' = Close(pw_context)
            /\ pw_browser' = Close(pw_browser)
       ELSE UNCHANGED <<pw_browser, pw_context>>
    /\ UNCHANGED <<ws_use_playwright, ws_playwright_scraper, ws_enters>>

fetch_vars ==
    <<fetch_pc, fetch_url, fetch_retry, fetch_session, fetch_outcome, fetch_calls, fetches>>

session_vars ==
    <<ws_use_playwright, ws_playwright_scraper, pw_browser, pw_context, ws_ctx,
      ws_enters, ws_exits>>

FetchAtRest == fetch_pc \in {"idle", "returned", "raised"}

\* What the scraper's steps leave alone.
outside_scraper ==
    <<pipeline_vars, cache_vars, llm_vars, tax_vars, field_vars, lifecycle_vars,
      text_vars, controller_vars, more_vars>>

\* `async with scraper:` is entered.
WebScraperAEnter ==
    /\ ws_ctx = "new"
    /\ FetchAtRest
    /\ \E answer \in StartAnswers : ScraperAEnter(answer)
    /\ UNCHANGED <<fetch_vars, outside_scraper>>

\* `async with scraper:` is left.
WebScraperAExit ==
    /\ ws_ctx = "entered"
    /\ FetchAtRest
    /\ ScraperAExit
    /\ UNCHANGED <<fetch_vars, outside_scraper>>

\* WebScraper.fetch is called (lines 270-285).
FetchCall ==
    /\ FetchAtRest
    /\ Len(fetches) < MaxFetches
    /\ \E url \in URLS, retry_with_fallback \in BOOLEAN :
        /\ fetch_url' = url
        /\ fetch_retry' = retry_with_fallback
    /\ fetch_session' = Session
    /\ fetch_outcome' = None
    /\ fetch_calls' = <<>>
    /\ fetch_pc' = IF ws_playwright_scraper # "None" THEN "primary" ELSE "fallback"
    /\ UNCHANGED <<fetches, session_vars, outside_scraper>>

\* The primary strategy answers (lines 286-291).
Primary ==
    /\ fetch_pc = "primary"
    /\ \E answer \in PageAnswers :
        LET r == PlaywrightFetch(fetch_url, answer) IN
        /\ fetch_calls' = Append(fetch_calls,
                                 [strategy |-> "playwright", url |-> fetch_url, result |-> r])
        /\ IF r.kind = "return"
           THEN /\ fetch_pc' = "returned"
                /\ fetch_outcome' = r
                /\ fetches' = Append(fetches, "ok")
           ELSE IF AfterPrimaryError(fetch_retry) = "raised"
           THEN /\ fetch_pc' = "raised"
                /\ fetch_outcome' = r
                /\ fetches' = Append(fetches, "failed")
           ELSE /\ fetch_pc' = "fallback"
                /\ UNCHANGED <<fetch_outcome, fetches>>
    /\ UNCHANGED <<fetch_url, fetch_retry, fetch_session, session_vars, outside_scraper>>

\* The fallback strategy answers (lines 293-298).
Fallback ==
    /\ fetch_pc = "fallback"
    /\ \E answer \in ClientAnswers :
        LET r == HTTPXFetch(fetch_url, answer) IN
        /\ fetch_calls' = Append(fetch_calls,
                                 [strategy |-> "httpx", url |-> fetch_url, result |-> r])
        /\ fetch_outcome' = r
        /\ fetch_pc' = IF r.kind = "return" THEN "returned" ELSE "raised"
        /\ fetches' = Append(fetches, IF r.kind = "return" THEN "ok" ELSE "failed")
    /\ UNCHANGED <<fetch_url, fetch_retry, fetch_session, session_vars, outside_scraper>>

\* A WebScraper is constructed, for both strategies or for HTTP only
\* (lines 246-254).
ScraperInit ==
    /\ PipelineIdle /\ CacheIdle /\ LLMIdle /\ TaxonomyIdle /\ FieldsIdle /\ TextIdle
    /\ ControllerIdle /\ PersistenceIdle /\ ContextIdle /\ PagesIdle /\ ParserIdle
    /\ ws_use_playwright \in BOOLEAN
    /\ ws_playwright_scraper = "None"
    /\ pw_browser = "None"
    /\ pw_context = "None"
    /\ ws_ctx = "new"
    /\ ws_enters = 0
    /\ ws_exits = 0
    /\ NoFetch
    /\ supplied = FALSE
    /\ processor_ctx = "none"
    /\ ws0 = None

ScraperNext == WebScraperAEnter \/ WebScraperAExit \/ FetchCall \/ Primary \/ Fallback

ScraperSpec == ScraperInit /\ [][ScraperNext]_vars

\* ------------------------------------------- scraper.py: _extract_readable_text
\* What extracting a text leaves alone.
outside_text ==
    <<pipeline_vars, cache_vars, llm_vars, tax_vars, field_vars, scraper_vars,
      lifecycle_vars, controller_vars, more_vars>>

\* The length texts are truncated to (lines 137-138, 147, 228-229, 238).
MaxTextChars == 10000

\* The longest text extracted here.
MaxTextLength == 12000

\* The lengths of the extracted texts: around the truncation length and
\* around the length of a truncated text.
TextLengths ==
    {0, 1, 2, 100, 5000, 9997, 9998, 9999, 10000, 10001, 10002, 10003, 10050, 11000,
     MaxTextLength}

\* "...": three characters that no text above holds.
Marker == <<0, 0, 0>>

\* PlaywrightScraper._extract_readable_text on the text of its path
\* (lines 137-140 and 147).
PlaywrightExtractReadableText(path, text) ==
    IF path = "readability"
    THEN IF Len(text) > MaxTextChars THEN Slice(text, MaxTextChars) \o Marker ELSE text
    ELSE IF Len(text) > MaxTextChars THEN Slice(text, MaxTextChars) \o Marker ELSE text

\* Mutant: the except path of the HTTPX strategy truncates without the marker.
HTTPXExtractWithoutMarker(path, text) ==
    IF path = "readability"
    THEN IF Len(text) > MaxTextChars THEN Slice(text, MaxTextChars) \o Marker ELSE text
    ELSE Slice(text, MaxTextChars)

\* HTTPXScraper._extract_readable_text on the text of its path
\* (lines 228-231 and 238).
HTTPXExtractReadableText(path, text) ==
    IF path = "readability"
    THEN IF Len(text) > MaxTextChars THEN Slice(text, MaxTextChars) \o Marker ELSE text
    ELSE IF Len(text) > MaxTextChars THEN Slice(text, MaxTextChars) \o Marker ELSE text

\* _extract_readable_text returns.
ExtractReadableText ==
    /\ text_out = None
    /\ text_strategy # "-"
    /\ text_out' = Returns(IF text_strategy = "playwright"
                           THEN PlaywrightExtractReadableText(text_path, text_in)
                           ELSE HTTPXExtractReadableText(text_path, text_in))
    /\ UNCHANGED <<text_strategy, text_path, text_in>>
    /\ UNCHANGED outside_text

\* A strategy has the text of one of its paths in hand.
TextInit ==
    /\ PipelineIdle /\ CacheIdle /\ LLMIdle /\ TaxonomyIdle /\ FieldsIdle /\ ScraperIdle
    /\ ControllerIdle /\ PersistenceIdle /\ ContextIdle /\ PagesIdle /\ ParserIdle
    /\ text_strategy \in {"playwright", "httpx"}
    /\ text_path \in {"readability", "basic"}
    /\ text_in \in {Chars(len) : len \in TextLengths}
    /\ text_out = None

TextNext == ExtractReadableText

TextSpec == TextInit /\ [][TextNext]_vars

\* ------------------------- pipeline.py: BookmarkProcessor.__aenter__ / __aexit__
\* The WebScraper's context and session, and the calls made on its context.
ScraperState ==
    [session |-> Session, ctx |-> ws_ctx, enters |-> ws_enters, exits |-> ws_exits]

\* Mutant: the processor never enters a scraper.
StartsScraperNever == FALSE

\* `if self._scraper is None:` (line 80): the processor builds a WebScraper
\* and enters it.
StartsScraper == scraper = "None"

\* Mutant: the processor never exits its scraper.
ExitsScraperNever == FALSE

\* `if self._scraper is not None:` (line 94): the processor exits the scraper.
ExitsScraper == scraper # "None"

\* BookmarkProcessor.__aenter__ (lines 73-88) with the WebScraper.__aenter__
\* it awaits: the cache's initialize raises, or the scraper's start does, or
\* the processor is entered.
ProcessorAEnter ==
    /\ processor_ctx = "new"
    /\ cache_ops' = IF use_cache THEN cache_ops \cup {"initialize"} ELSE cache_ops
    /\ \E cache_answer \in CacheAnswers, start \in StartAnswers :
        IF use_cache /\ cache_answer = "error"
        THEN /\ processor_ctx' = "enter_failed"
             /\ UNCHANGED <<scraper, llm_service, session_vars>>
        ELSE IF StartsScraper
        THEN /\ scraper' = "WebScraper"
             /\ ScraperAEnter(start)
             /\ IF ws_use_playwright /\ start # "ok"
                THEN processor_ctx' = "enter_failed" /\ UNCHANGED llm_service
                ELSE processor_ctx' = "entered" /\ llm_service' = "LLMService"
        ELSE /\ processor_ctx' = "entered"
             /\ llm_service' = "LLMService"
             /\ UNCHANGED <<scraper, session_vars>>
    /\ UNCHANGED <<use_cache, cache_scrape, cache_llm, batch, arguments, sem,
                   completed, pc, scrape_result, llm_metadata, used_cache,
                   returned, results, processed_results, calls, finished,
                   progress, cache0>>
    /\ UNCHANGED <<supplied, ws0, fetch_vars>>
    /\ UNCHANGED <<cache_vars, llm_vars, tax_vars, field_vars, text_vars, controller_vars>>
    /\ UNCHANGED <<persistence_vars, page_vars, tree_vars>>

\* BookmarkProcessor.__aexit__ (lines 90-95) with the WebScraper.__aexit__ it
\* awaits, after a body that returned or raised.
ProcessorAExit ==
    /\ processor_ctx = "entered"
    /\ FetchAtRest
    /\ \E exc_type \in {"None", "Exception"} :
        processor_ctx' = IF exc_type = "None" THEN "exited" ELSE "exited_on_exception"
    /\ IF ExitsScraper THEN ScraperAExit ELSE UNCHANGED session_vars
    /\ UNCHANGED <<supplied, ws0, fetch_vars>>
    /\ UNCHANGED <<pipeline_vars, cache_vars, llm_vars, tax_vars, field_vars, text_vars, controller_vars>>
    /\ UNCHANGED <<persistence_vars, page_vars, tree_vars>>

\* The body of `async with processor:` has the scraper fetch for an item
\* (line 128).
ItemFetch ==
    /\ processor_ctx = "entered"
    /\ FetchCall \/ Primary \/ Fallback

\* A processor is built (lines 51-71) without a scraper, or with a WebScraper
\* of its caller: for HTTP only or for both strategies, entered by the
\* caller or not.
LifecycleInit ==
    /\ CacheIdle /\ LLMIdle /\ TaxonomyIdle /\ FieldsIdle /\ TextIdle
    /\ ControllerIdle /\ PersistenceIdle /\ ContextIdle /\ PagesIdle /\ ParserIdle
    /\ PipelineAtRest
    /\ llm_service \in {"None", "LLMService"}
    /\ supplied \in BOOLEAN
    /\ scraper = IF supplied THEN "WebScraper" ELSE "None"
    /\ ws_use_playwright \in IF supplied THEN BOOLEAN ELSE {TRUE}
    /\ ws_ctx \in IF supplied THEN {"new", "entered"} ELSE {"new"}
    /\ ws_playwright_scraper =
            IF ws_use_playwright /\ ws_ctx = "entered" THEN "PlaywrightScraper" ELSE "None"
    /\ pw_browser = IF ws_playwright_scraper # "None" THEN "open" ELSE "None"
    /\ pw_context = IF ws_playwright_scraper # "None" THEN "open" ELSE "None"
    /\ ws_enters = IF ws_ctx = "entered" THEN 1 ELSE 0
    /\ ws_exits = 0
    /\ NoFetch
    /\ processor_ctx = "new"
    /\ ws0 = ScraperState

LifecycleNext ==
    \/ ProcessorAEnter /\ UNCHANGED ctl_vars
    \/ ProcessorAExit /\ UNCHANGED ctl_vars
    \/ ItemFetch

LifecycleSpec == LifecycleInit /\ [][LifecycleNext]_vars

\* ------------- controller.py: BookmarkController.process_bookmarks_to_metadata
\* Mutant: the metadata is collected from the last outcome to the first.
RECURSIVE MetadataOfReversed(_)
MetadataOfReversed(rs) ==
    IF rs = <<>> THEN <<>>
    ELSE MetadataOfReversed(Tail(rs))
         \o (IF Head(rs).success /\ Head(rs).llm_metadata # None
             THEN <<Head(rs).llm_metadata>> ELSE <<>>)

\* The loop over results (lines 149-151): metadata_list after it.
RECURSIVE MetadataOf(_)
MetadataOf(rs) ==
    IF rs = <<>> THEN <<>>
    ELSE (IF Head(rs).success /\ Head(rs).llm_metadata # None
          THEN <<Head(rs).llm_metadata>> ELSE <<>>)
         \o MetadataOf(Tail(rs))

\* The loop over results (lines 149-153): errors after it, each entry
\* f"{result.bookmark.url}: {result.error}".
RECURSIVE ErrorsOf(_)
ErrorsOf(rs) ==
    IF rs = <<>> THEN <<>>
    ELSE (IF ~(Head(rs).success /\ Head(rs).llm_metadata # None) /\ Head(rs).error # None
          THEN <<[url |-> Head(rs).bookmark.url, error |-> Head(rs).error]>> ELSE <<>>)
         \o ErrorsOf(Tail(rs))

\* process_bookmarks_to_metadata on a controller that holds the processor:
\* the awaited process_bookmarks has returned, the successful metadata is
\* collected, the errors are logged and the list is returned (lines 136-168).
ProcessBookmarksToMetadata ==
    /\ batch = "returned"
    /\ metadata_list = None
    /\ metadata_list' = [kind |-> "list", items |-> MetadataOf(processed_results)]
    /\ errors' = ErrorsOf(processed_results)
    /\ UNCHANGED <<pipeline_vars, cache_vars, llm_vars, tax_vars, field_vars,
                   scraper_vars, lifecycle_vars, text_vars, more_vars>>

\* The processor's batch run for a controller.
ControllerNext == Next \/ ProcessBookmarksToMetadata

ControllerSpec == Init /\ [][ControllerNext]_vars

\* ------------------------------------------ persistence.py: PersistenceManager
\* The bound on the calls made on one PersistenceManager and its controller.
MaxPersistenceCalls == 4

\* models.FolderNode
FolderNode(name, children) == [kind |-> "FolderNode", name |-> name, children |-> children]

ControllerError(message) == [kind |-> "ControllerError", message |-> message]

\* The taxonomy trees given to apply_taxonomy: a folder of bookmarks, and a
\* folder holding a bookmark and a subfolder.
TaxonomyTrees ==
    {FolderNode("Bookmarks", <<OldLLM("u1"), OldLLM("u2")>>),
     FolderNode("Bookmarks", <<OldLLM("u1"), FolderNode("News", <<OldLLM("u2")>>)>>)}

\* What the operating system is asked to do: shutil.copy of the plist
\* (line 60), or osascript run on a rendered script (lines 87-94).
Copy(source, destination) == [effect |-> "copy", source |-> source, destination |-> destination]

Osascript(script) == [effect |-> "osascript", script |-> script]

\* template.render(**kwargs) of the two templates (lines 75-76).
CreateFolder(folder_name) == [script_name |-> "create_folder", folder_name |-> folder_name]

MoveBookmark(bookmark_url, folder_name) ==
    [script_name |-> "move_bookmark", bookmark_url |-> bookmark_url,
     folder_name |-> folder_name]

\* What a call does to the system and how it ends.
Ended(effects, result) == [effects |-> effects, result |-> result]

\* backup_bookmarks (lines 34-62).
BackupBookmarks(dry_run, exists) ==
    IF dry_run THEN Ended(<<>>, Returns("/tmp/dry_run_backup.plist"))
    ELSE IF ~exists THEN Ended(<<>>, Returns("/tmp/no_backup_made.plist"))
    ELSE Ended(<<Copy("Bookmarks.plist", "backup_path")>>, Returns("backup_path"))

\* Mutant: the script is executed in dry-run mode too.
RunApplescriptIgnoringDryRun(dry_run, script, answer) ==
    IF answer = "ok"
    THEN Ended(<<Osascript(script)>>, Returns("stdout"))
    ELSE Ended(<<Osascript(script)>>, Raises("AppleScript failed: "))

\* _run_applescript (lines 64-110); answer is the script's return code.
RunApplescript(dry_run, script, answer) ==
    IF dry_run THEN Ended(<<>>, Returns("dry-run"))
    ELSE IF answer = "ok"
    THEN Ended(<<Osascript(script)>>, Returns("stdout"))
    ELSE Ended(<<Osascript(script)>>, Raises("AppleScript failed: "))

\* The scripts _traverse_and_apply renders for a node, in the order of its
\* calls (lines 130-148).
RECURSIVE ScriptsOfChildren(_, _)
RECURSIVE ScriptsOf(_)
ScriptsOfChildren(children, folder_name) ==
    IF children = <<>> THEN <<>>
    ELSE (IF Head(children).kind = "FolderNode"
          THEN ScriptsOf(Head(children))
          ELSE <<MoveBookmark(Head(children).url, folder_name)>>)
         \o ScriptsOfChildren(Tail(children), folder_name)

ScriptsOf(node) == <<CreateFolder(node.name)>> \o ScriptsOfChildren(node.children, node.name)

\* The awaited _run_applescript calls one after the other, the fail_at-th
\* failing (0: none): the first exception ends the traversal.
RECURSIVE RunScripts(_, _, _)
RunScripts(dry_run, scripts, fail_at) ==
    IF scripts = <<>> THEN Ended(<<>>, Returns(None))
    ELSE LET first == RunApplescript(dry_run, Head(scripts),
                                     IF fail_at = 1 THEN "failed" ELSE "ok")
             rest == RunScripts(dry_run, Tail(scripts), fail_at - 1)
         IN IF first.result.kind = "raise" THEN first
            ELSE Ended(first.effects \o rest.effects, rest.result)

\* _traverse_and_apply (lines 124-148).
TraverseAndApply(dry_run, node, fail_at) == RunScripts(dry_run, ScriptsOf(node), fail_at)

\* PersistenceManager.apply_taxonomy (lines 112-122).
PersistenceApplyTaxonomy(dry_run, taxonomy_tree, fail_at) ==
    IF dry_run THEN Ended(<<>>, Returns(None))
    ELSE TraverseAndApply(dry_run, taxonomy_tree, fail_at)

\* BookmarkController.apply_taxonomy (controller.py lines 416-428).
ControllerApplyTaxonomy(configured, dry_run, taxonomy_tree, fail_at) ==
    IF ~configured THEN Ended(<<>>, Raises(ControllerError("PersistenceManager not configured.")))
    ELSE IF dry_run THEN Ended(<<>>, Returns(None))
    ELSE PersistenceApplyTaxonomy(dry_run, taxonomy_tree, fail_at)

\* What the calls on the PersistenceManager leave alone.
outside_persistence ==
    <<pipeline_vars, cache_vars, llm_vars, tax_vars, field_vars, scraper_vars,
      lifecycle_vars, text_vars, controller_vars, ctl_vars, page_vars, tree_vars>>

\* A call op(arg) is made and ends as `done` says.
PersistenceCall(op, arg, done) ==
    /\ Len(pm_calls) < MaxPersistenceCalls
    /\ os_effects' = os_effects \o done.effects
    /\ pm_calls' = Append(pm_calls, [op |-> op, arg |-> arg, result |-> done.result])
    /\ UNCHANGED <<pm_configured, pm_dry_run, plist_exists, outside_persistence>>

\* backup_bookmarks is called.
BackupBookmarksCall ==
    PersistenceCall("backup_bookmarks", None, BackupBookmarks(pm_dry_run, plist_exists))

\* _run_applescript is called on a template.
RunApplescriptCall ==
    \E script \in {CreateFolder("News"), MoveBookmark("u1", "News")},
       answer \in {"ok", "failed"} :
        PersistenceCall("_run_applescript", script, RunApplescript(pm_dry_run, script, answer))

\* PersistenceManager.apply_taxonomy is called.
ApplyTaxonomyCall ==
    \E taxonomy_tree \in TaxonomyTrees, fail_at \in 0..2 :
        PersistenceCall("PersistenceManager.apply_taxonomy", taxonomy_tree,
                        PersistenceApplyTaxonomy(pm_dry_run, taxonomy_tree, fail_at))

\* BookmarkController.apply_taxonomy is called.
ControllerApplyTaxonomyCall ==
    \E taxonomy_tree \in TaxonomyTrees, fail_at \in 0..2 :
        PersistenceCall("BookmarkController.apply_taxonomy", taxonomy_tree,
                        ControllerApplyTaxonomy(pm_configured, pm_dry_run,
                                                taxonomy_tree, fail_at))

\* A PersistenceManager is built for a dry run or for saving (lines 24-32),
\* for a controller or on its own; Safari's plist is there or not.
PersistenceInit ==
    /\ PipelineIdle /\ CacheIdle /\ LLMIdle
    /\ TaxonomyIdle /\ FieldsIdle /\ ScraperIdle /\ TextIdle /\ ControllerIdle
    /\ ContextIdle /\ PagesIdle /\ ParserIdle
    /\ pm_configured \in BOOLEAN
    /\ pm_dry_run \in BOOLEAN
    /\ plist_exists \in BOOLEAN
    /\ os_effects = <<>>
    /\ pm_calls = <<>>

PersistenceNext ==
    \/ BackupBookmarksCall
    \/ RunApplescriptCall
    \/ ApplyTaxonomyCall
    \/ ControllerApplyTaxonomyCall

PersistenceSpec == PersistenceInit /\ [][PersistenceNext]_vars

\* ------------------------------------------------ __main__.py: the organize command
\* `force_refresh=not no_scrape` (line 206): what run_organization_pipeline
\* is given for the option --no-scrape.
ForceRefreshOf(no_scrape) == ~no_scrape

\* run_organization_pipeline has entered its controller (lines 253-257): the
\* controller built a BookmarkProcessor() and entered it (controller.py
\* 61-65), which initialized the cache and built the scraper and the service
\* (pipeline.py 76-86), over the cache of the earlier runs.
OrganizeInit ==
    /\ CacheIdle
    /\ LLMIdle
    /\ OthersIdle
    /\ use_cache = TRUE
    /\ scraper = "WebScraper"
    /\ llm_service = "LLMService"
    /\ \E S \in SUBSET URLS, M \in SUBSET URLS :
        /\ cache_scrape = ScrapeTable(S)
        /\ cache_llm = LLMTable(M)
        /\ cache0 = [scrape |-> ScrapeTable(S), llm |-> LLMTable(M)]
    /\ cache_ops = {"initialize"}
    /\ batch = "idle"
    /\ bookmarks = <<>>
    /\ concurrency = 0
    /\ force_refresh = FALSE
    /\ has_callback = FALSE
    /\ sem = 0
    /\ completed = 0
    /\ pc = <<>>
    /\ scrape_result = <<>>
    /\ llm_metadata = <<>>
    /\ used_cache = <<>>
    /\ returned = <<>>
    /\ results = <<>>
    /\ processed_results = <<>>
    /\ calls = <<>>
    /\ finished = <<>>
    /\ progress = <<>>

\* organize runs the pipeline (lines 199-209 and 258-281): the bookmarks
\* read are not empty, the progress context gives a callback, and the batch
\* is processed with force_refresh as line 206 computes it.
Organize ==
    /\ ProcessBookmarks
    /\ bookmarks' # <<>>
    /\ has_callback' = TRUE
    /\ \E no_scrape \in BOOLEAN : force_refresh' = ForceRefreshOf(no_scrape)

OrganizeNext ==
    \/ Organize
    \/ \E i \in Tasks : Acquire(i)
    \/ \E i \in Tasks : GetScrape(i)
    \/ \E i \in Tasks : Fetch(i)
    \/ \E i \in Tasks : StoreScrape(i)
    \/ \E i \in Tasks : GetLLM(i)
    \/ \E i \in Tasks : Generate(i)
    \/ \E i \in Tasks : StoreLLM(i)
    \/ Gather

OrganizeSpec == OrganizeInit /\ [][OrganizeNext]_vars

\* ----------------------- controller.py: BookmarkController.__aenter__ / __aexit__
\* BookmarkController.__aenter__ (lines 59-66) with the
\* BookmarkProcessor.__aenter__ it awaits: a controller without a processor
\* builds one and takes over its lifecycle; the processor, built or given,
\* is entered.
ControllerAEnter ==
    /\ ctl_ctx = "new"
    /\ ctl_manages' = ~ctl_given
    /\ ProcessorAEnter
    /\ ctl_ctx' = IF processor_ctx' = "entered" THEN "entered" ELSE "enter_failed"
    /\ UNCHANGED ctl_given

\* BookmarkController.__aexit__ (lines 68-79): the processor is exited only
\* if the controller built it; the controller then drops it.
ControllerAExit ==
    /\ ctl_ctx = "entered"
    /\ FetchAtRest
    /\ IF ctl_manages
       THEN ProcessorAExit
       ELSE UNCHANGED <<pipeline_vars, cache_vars, llm_vars, tax_vars, field_vars,
                        scraper_vars, lifecycle_vars, text_vars, controller_vars,
                        persistence_vars, page_vars, tree_vars>>
    /\ ctl_ctx' = "exited"
    /\ ctl_manages' = FALSE
    /\ UNCHANGED ctl_given

\* The body of `async with controller:` has the processor's scraper fetch
\* for an item.
ControllerItemFetch ==
    /\ ctl_ctx = "entered"
    /\ ItemFetch

\* A controller is built (lines 39-57) without a processor, and will build a
\* BookmarkProcessor() of its own, or with a new processor of its caller,
\* which has no scraper or a WebScraper of the caller's.
RunInit ==
    /\ CacheIdle /\ LLMIdle /\ TaxonomyIdle /\ FieldsIdle /\ TextIdle
    /\ ControllerIdle /\ PersistenceIdle /\ PagesIdle /\ ParserIdle
    /\ PipelineAtRest
    /\ ctl_given \in BOOLEAN
    /\ ctl_manages = FALSE
    /\ ctl_ctx = "new"
    /\ llm_service \in IF ctl_given THEN {"None", "LLMService"} ELSE {"None"}
    /\ supplied \in IF ctl_given THEN BOOLEAN ELSE {FALSE}
    /\ scraper = IF supplied THEN "WebScraper" ELSE "None"
    /\ ws_use_playwright \in IF supplied THEN BOOLEAN ELSE {TRUE}
    /\ ws_ctx \in IF supplied THEN {"new", "entered"} ELSE {"new"}
    /\ ws_playwright_scraper =
            IF ws_use_playwright /\ ws_ctx = "entered" THEN "PlaywrightScraper" ELSE "None"
    /\ pw_browser = IF ws_playwright_scraper # "None" THEN "open" ELSE "None"
    /\ pw_context = IF ws_playwright_scraper # "None" THEN "open" ELSE "None"
    /\ ws_enters = IF ws_ctx = "entered" THEN 1 ELSE 0
    /\ ws_exits = 0
    /\ NoFetch
    /\ processor_ctx = "new"
    /\ ws0 = ScraperState

RunNext == ControllerAEnter \/ ControllerAExit \/ ControllerItemFetch

RunSpec == RunInit /\ [][RunNext]_vars

\* ------------------------------------ scraper.py: the pages of PlaywrightScraper.fetch
\* The bound on the PlaywrightScraper.fetch calls made on one browsing context.
MaxPageFetches == 3

\* How page.goto can end (lines 84-90): a response below 400, an exception
\* (a timeout), no response, or a status of 400 and above.
GotoAnswers == {"ok", "raises", "no_response", "status_400"}

\* What the fetches on the context leave alone.
outside_pages ==
    <<pipeline_vars, cache_vars, llm_vars, tax_vars, field_vars, scraper_vars,
      lifecycle_vars, text_vars, controller_vars, persistence_vars, ctl_vars,
      tree_vars>>

\* Fetch f goes on to `next`.
PageGoes(f, next) == pg_fetch' = [pg_fetch EXCEPT ![f].pc = next]

\* `except Exception` (lines 113-115): fetch f raises ScraperError; nothing
\* is done about the page.
PageFetchRaises(f) == pg_fetch' = [pg_fetch EXCEPT ![f].pc = "raised"]

\* PlaywrightScraper.fetch is called (lines 62-78): without a context it
\* raises at once.
PageFetchCall ==
    /\ Len(pg_fetch) < MaxPageFetches
    /\ \E url \in URLS :
        pg_fetch' = Append(pg_fetch,
                           [url |-> url, page |-> 0,
                            pc |-> IF pw_context = "None" THEN "raised" ELSE "new_page"])
    /\ UNCHANGED <<pg_open, pg_pages, outside_pages>>

\* `page = await self._context.new_page()` (line 81) gives a new page, or raises.
NewPage(f) ==
    /\ pg_fetch[f].pc = "new_page"
    /\ \E answer \in {"ok", "error"} :
        IF answer = "ok"
        THEN /\ pg_pages' = pg_pages + 1
             /\ pg_open' = pg_open \cup {pg_pages + 1}
             /\ pg_fetch' = [pg_fetch EXCEPT ![f].pc = "goto", ![f].page = pg_pages + 1]
        ELSE /\ PageFetchRaises(f)
             /\ UNCHANGED <<pg_open, pg_pages>>
    /\ UNCHANGED outside_pages

\* `response = await page.goto(url, ...)` and the two checks of the response
\* (lines 84-90).
Goto(f) ==
    /\ pg_fetch[f].pc = "goto"
    /\ \E answer \in GotoAnswers :
        IF answer = "ok" THEN PageGoes(f, "load") ELSE PageFetchRaises(f)
    /\ UNCHANGED <<pg_open, pg_pages, outside_pages>>

\* wait_for_load_state, page.content and page.title (lines 93-100) return,
\* or one of them raises.
Load(f) ==
    /\ pg_fetch[f].pc = "load"
    /\ \E answer \in {"ok", "error"} :
        IF answer = "ok" THEN PageGoes(f, "close") ELSE PageFetchRaises(f)
    /\ UNCHANGED <<pg_open, pg_pages, outside_pages>>

\* `await page.close()` and the return of the result (lines 102-111).
ClosePage(f) ==
    /\ pg_fetch[f].pc = "close"
    /\ pg_open' = pg_open \ {pg_fetch[f].page}
    /\ PageGoes(f, "returned")
    /\ UNCHANGED <<pg_pages, outside_pages>>

\* A PlaywrightScraper that was started (lines 45-52), or one that was not.
PageInit ==
    /\ PipelineIdle /\ CacheIdle /\ LLMIdle
    /\ TaxonomyIdle /\ FieldsIdle /\ TextIdle /\ ControllerIdle
    /\ PersistenceIdle /\ ContextIdle /\ PagesIdle /\ ParserIdle
    /\ ws_use_playwright = TRUE
    /\ ws_playwright_scraper = "None"
    /\ pw_context \in {"None", "open"}
    /\ pw_browser = pw_context
    /\ ws_ctx = "new"
    /\ ws_enters = 0
    /\ ws_exits = 0
    /\ NoFetch
    /\ supplied = FALSE
    /\ processor_ctx = "none"
    /\ ws0 = None

PageNext ==
    \/ PageFetchCall
    \/ \E f \in 1..Len(pg_fetch) : NewPage(f)
    \/ \E f \in 1..Len(pg_fetch) : Goto(f)
    \/ \E f \in 1..Len(pg_fetch) : Load(f)
    \/ \E f \in 1..Len(pg_fetch) : ClosePage(f)

PageSpec == PageInit /\ [][PageNext]_vars

\* ------------------------------------------ tree_builder.py: TaxonomyParser
\* The bound on the entries of a "bookmarks" list, and on the parse_taxonomy
\* calls made on one parser.
MaxEntries == 2

MaxParseCalls == 2

TreeBuilderError(message) == [kind |-> "TreeBuilderError", message |-> message]

\* JSON values as json.loads gives them: a list, a dict (a record with its
\* keys), or something that is neither (a string).
JList(items) == [kind |-> "list", items |-> items]

JStr == [kind |-> "str"]

\* The strings found as "url" and "name" values, and str.strip() on them.
UrlValues == {"u1", "u2", " "}

StrStrip(s) == CASE s = " u1 " -> "u1" [] s = " " -> "" [] OTHER -> s

\* The metadata objects of a run: two objects for u1, one for u2. A url of
\* UrlValues that the list of a run leaves out is a url the run does not know.
MetadataObjects == {LLMMetadata("u1", 0, 1), LLMMetadata("u1", 0, 2), LLMMetadata("u2", 0, 3)}

SeqsUpTo(S, n) == UNION {[1..k -> S] : k \in 0..n}

\* The lists of a run hold the objects in the order they were made.
MetadataLists ==
    {ms \in SeqsUpTo(MetadataObjects, 2) :
        \A i, j \in 1..Len(ms) : i < j => ms[i].gen < ms[j].gen}

\* The entries of a "bookmarks" list: dicts with a url, a dict without, and
\* an entry that is no dict.
BookmarkValues ==
    {[kind |-> "dict", url |-> u] : u \in UrlValues}
    \cup {[kind |-> "dict", title |-> "T"], JStr}

\* The entries of the folders that have a subfolder; no run knows u3.
NestedEntries == {[kind |-> "dict", url |-> u] : u \in {" u1 ", "u3"}}

LeafFolders ==
    {[kind |-> "dict", name |-> "A", bookmarks |-> JList(bs)] :
        bs \in SeqsUpTo(BookmarkValues, MaxEntries)}

NestedFolders ==
    {[kind |-> "dict", name |-> " u1 ", bookmarks |-> JList(bs),
      subfolders |-> JList(<<[kind |-> "dict", name |-> "B", bookmarks |-> JList(cs)]>>)] :
        bs \in [1..MaxEntries -> NestedEntries], cs \in [1..1 -> NestedEntries]}

InvalidFolders ==
    {JStr,
     [kind |-> "dict", bookmarks |-> JList(<<>>)],
     [kind |-> "dict", name |-> " "],
     [kind |-> "dict", name |-> "A", bookmarks |-> JStr],
     [kind |-> "dict", name |-> "A",
      bookmarks |-> JList(<<[kind |-> "dict", url |-> "u1"]>>), subfolders |-> JStr]}

\* The taxonomies given to parse_taxonomy: without "folders", with "folders"
\* that is no list, with one folder, and with a folder of one bookmark
\* followed by a second folder.
TaxonomyJsons ==
    {[kind |-> "dict"], [kind |-> "dict", folders |-> JStr]}
    \cup {[kind |-> "dict", folders |-> JList(<<f>>)] :
            f \in LeafFolders \cup NestedFolders \cup InvalidFolders}
    \cup {[kind |-> "dict",
           folders |-> JList(<<[kind |-> "dict", name |-> "A",
                                bookmarks |-> JList(<<[kind |-> "dict", url |-> u]>>)], g>>)] :
            u \in {"u1"},
            g \in InvalidFolders
                  \cup {[kind |-> "dict", name |-> "B",
                         bookmarks |-> JList(<<[kind |-> "dict", url |-> " u1 "]>>)]}}

\* The parser's three tracking fields.
Tracking ==
    [processed_urls |-> tp_processed_urls,
     missing_bookmarks |-> tp_missing_bookmarks,
     duplicate_bookmarks |-> tp_duplicate_bookmarks]

\* Mutant: the tracking state is kept from call to call.
ClearTrackingSkipped(t) == t

\* The three clear() calls (lines 54-56).
ClearTracking(t) ==
    [processed_urls |-> {}, missing_bookmarks |-> {}, duplicate_bookmarks |-> <<>>]

\* `{meta.url: meta for meta in original_metadata}` (line 59): the last
\* object of a url is the one kept.
UrlToMetadata(original_metadata) ==
    [u \in {original_metadata[i].url : i \in 1..Len(original_metadata)} |->
        original_metadata[CHOOSE i \in 1..Len(original_metadata) :
            /\ original_metadata[i].url = u
            /\ \A j \in (i + 1)..Len(original_metadata) : original_metadata[j].url # u]]

\* _parse_bookmark (lines 159-206): the metadata object or None, and the
\* tracking state after it.
ParseBookmark(bookmark_data, url_to_metadata, t) ==
    LET url == StrStrip(bookmark_data.url) IN
    IF bookmark_data.kind # "dict" THEN [bookmark |-> None, t |-> t]
    ELSE IF "url" \notin DOMAIN bookmark_data THEN [bookmark |-> None, t |-> t]
    ELSE IF url = "" THEN [bookmark |-> None, t |-> t]
    ELSE IF url \in t.processed_urls
        THEN [bookmark |-> None,
              t |-> [t EXCEPT !.duplicate_bookmarks = Append(@, url)]]
    ELSE IF url \notin DOMAIN url_to_metadata THEN [bookmark |-> None, t |-> t]
    ELSE [bookmark |-> url_to_metadata[url],
          t |-> [t EXCEPT !.processed_urls = @ \cup {url}]]

\* The loop over bookmarks_data (lines 142-145).
RECURSIVE ParseBookmarks(_, _, _)
ParseBookmarks(items, url_to_metadata, t) ==
    IF items = <<>> THEN [children |-> <<>>, t |-> t]
    ELSE LET first == ParseBookmark(Head(items), url_to_metadata, t)
             rest == ParseBookmarks(Tail(items), url_to_metadata, first.t)
         IN [children |-> (IF first.bookmark # None THEN <<first.bookmark>> ELSE <<>>)
                          \o rest.children,
             t |-> rest.t]

\* _parse_folder (lines 106-157) and the loops over folders (lines 72-74 and
\* 153-155): the node or the nodes, or the TreeBuilderError raised, and the
\* tracking state then.
RECURSIVE ParseFolder(_, _, _)
RECURSIVE ParseFolders(_, _, _)
ParseFolder(folder_data, url_to_metadata, t) ==
    IF folder_data.kind # "dict"
    THEN [result |-> Raises(TreeBuilderError("Folder data must be a dictionary")), t |-> t]
    ELSE IF "name" \notin DOMAIN folder_data
    THEN [result |-> Raises(TreeBuilderError("Folder missing 'name' field")), t |-> t]
    ELSE IF StrStrip(folder_data.name) = ""
    THEN [result |-> Raises(TreeBuilderError("Folder name cannot be empty")), t |-> t]
    ELSE IF "bookmarks" \in DOMAIN folder_data /\ folder_data.bookmarks.kind # "list"
    THEN [result |-> Raises(TreeBuilderError("'bookmarks' field must be a list")), t |-> t]
    ELSE
        LET b == IF "bookmarks" \in DOMAIN folder_data
                 THEN ParseBookmarks(folder_data.bookmarks.items, url_to_metadata, t)
                 ELSE [children |-> <<>>, t |-> t]
        IN
        IF "subfolders" \in DOMAIN folder_data /\ folder_data.subfolders.kind # "list"
        THEN [result |-> Raises(TreeBuilderError("'subfolders' field must be a list")),
              t |-> b.t]
        ELSE
            LET s == IF "subfolders" \in DOMAIN folder_data
                     THEN ParseFolders(folder_data.subfolders.items, url_to_metadata, b.t)
                     ELSE [result |-> Returns(<<>>), t |-> b.t]
            IN
            IF s.result.kind = "raise" THEN s
            ELSE [result |-> Returns(FolderNode(StrStrip(folder_data.name),
                                                b.children \o s.result.value)),
                  t |-> s.t]

ParseFolders(items, url_to_metadata, t) ==
    IF items = <<>> THEN [result |-> Returns(<<>>), t |-> t]
    ELSE LET first == ParseFolder(Head(items), url_to_metadata, t) IN
         IF first.result.kind = "raise" THEN first
         ELSE LET rest == ParseFolders(Tail(items), url_to_metadata, first.t) IN
              IF rest.result.kind = "raise" THEN rest
              ELSE [result |-> Returns(<<first.result.value>> \o rest.result.value),
                    t |-> rest.t]

\* _validate_completeness (lines 208-224).
ValidateCompleteness(original_metadata, t) ==
    [t EXCEPT !.missing_bookmarks =
        {original_metadata[i].url : i \in 1..Len(original_metadata)} \ t.processed_urls]

\* parse_taxonomy (lines 35-104) on a parser whose tracking state is t0: the
\* root or the TreeBuilderError, and the tracking state after the call.
ParseTaxonomy(taxonomy_json, original_metadata, t0) ==
    LET t == ClearTracking(t0)
        url_to_metadata == UrlToMetadata(original_metadata)
    IN
    IF "folders" \notin DOMAIN taxonomy_json
    THEN [result |-> Raises(TreeBuilderError("Taxonomy parsing failed: missing 'folders'")),
          t |-> t]
    ELSE IF taxonomy_json.folders.kind # "list"
    THEN [result |-> Raises(TreeBuilderError("Taxonomy parsing failed: 'folders' no list")),
          t |-> t]
    ELSE
        LET f == ParseFolders(taxonomy_json.folders.items, url_to_metadata, t) IN
        IF f.result.kind = "raise"
        THEN [result |-> Raises(TreeBuilderError(<<"Taxonomy parsing failed: ",
                                                  f.result.e.message>>)),
              t |-> f.t]
        ELSE [result |-> Returns(FolderNode("Bookmarks", f.result.value)),
              t |-> ValidateCompleteness(original_metadata, f.t)]

\* What a parse leaves alone.
outside_parser ==
    <<pipeline_vars, cache_vars, llm_vars, tax_vars, field_vars, scraper_vars,
      lifecycle_vars, text_vars, controller_vars, persistence_vars, ctl_vars,
      page_vars>>

\* parse_taxonomy is called on the parser.
ParseTaxonomyCall ==
    /\ tp_calls < MaxParseCalls
    /\ \E taxonomy_json \in TaxonomyJsons, original_metadata \in MetadataLists :
        LET r == ParseTaxonomy(taxonomy_json, original_metadata, Tracking) IN
        /\ tp_input' = [taxonomy_json |-> taxonomy_json,
                        original_metadata |-> original_metadata]
        /\ tp_result' = r.result
        /\ tp_processed_urls' = r.t.processed_urls
        /\ tp_missing_bookmarks' = r.t.missing_bookmarks
        /\ tp_duplicate_bookmarks' = r.t.duplicate_bookmarks
    /\ tp_calls' = tp_calls + 1
    /\ UNCHANGED outside_parser

\* A TaxonomyParser is constructed (lines 29-33).
ParserInit ==
    /\ PipelineIdle /\ CacheIdle /\ LLMIdle
    /\ TaxonomyIdle /\ FieldsIdle /\ ScraperIdle /\ TextIdle /\ ControllerIdle
    /\ PersistenceIdle /\ ContextIdle /\ PagesIdle /\ ParserIdle

ParserNext == ParseTaxonomyCall

ParserSpec == ParserInit /\ [][ParserNext]_vars

\* ------------------------------------------------------------------ claims
\* The tasks whose process_bookmark call has started and not yet returned.
InFlight == {i \in Tasks : pc[i] \notin {"waiting", "done"}}

Done(i) == pc[i] = "done"

\* A call made inside process_bookmark for task i raised, or a collaborator
\* it needed was missing.
StepFailed(i) ==
    \/ calls[i].get_scrape = "error"
    \/ calls[i].fetch \in {"ScraperError", "Exception", "uninitialized"}
    \/ calls[i].store_scrape = "error"
    \/ calls[i].get_llm = "error"
    \/ calls[i].generate \in {"LLMError", "Exception", "uninitialized"}
    \/ calls[i].store_llm = "error"

\* Task i failed: inside process_bookmark, or by an exception that left the task.
ItemFailed(i) == StepFailed(i) \/ calls[i].callback = "raised"

\* A failure outcome: an error message and no metadata.
IsFailure(r) ==
    /\ r.kind = "ProcessingResult"
    /\ ~r.success
    /\ r.error # None
    /\ r.llm_metadata = None

\* What a caller sees of an outcome, whichever fetch produced its content.
Observable(r) ==
    <<r.success, r.error, r.used_cache, r.scrape_result # None, r.llm_metadata # None>>

\* No other bookmark of the batch shares task i's url.
UniqueUrl(i) == \A j \in Tasks \ {i} : bookmarks[j].url # bookmarks[i].url

\* No other task can reach task i through the cache: none shares its url, or
\* no lookup is made at all.
Independent(i) == UniqueUrl(i) \/ ~LooksUp

\* One outcome per input bookmark, each a ProcessingResult for its bookmark,
\* and a failure for every item that failed.
OneOutcomeEach ==
    /\ DOMAIN processed_results = DOMAIN bookmarks
    /\ \A i \in Tasks :
        /\ processed_results[i].kind = "ProcessingResult"
        /\ processed_results[i].bookmark = bookmarks[i]
        /\ (ItemFailed(i) => IsFailure(processed_results[i]))

\* C1 as stated: process_bookmarks returns one outcome per input bookmark, a
\* failing item yields a failure outcome for that bookmark, and the outcome of
\* every other bookmark is the one it would have had without the failing item
\* in the batch (so, when every other item failed, the one it has alone).
C1_Original ==
    batch = "returned" =>
        /\ OneOutcomeEach
        /\ \A i \in Tasks :
            (\A j \in Tasks \ {i} : ItemFailed(j)) =>
                Observable(processed_results[i]) = Observable(BatchOfOne(i, force_refresh))

\* C1 amended: one outcome per input bookmark, a failing item yields a failure
\* outcome for that bookmark, and every bookmark that no other item can reach
\* through the cache (no shared url, or no lookups) has exactly the outcome of
\* a batch holding it alone, whatever the other items did.
C1_FailureIsolation ==
    batch = "returned" =>
        /\ OneOutcomeEach
        /\ \A i \in Tasks :
            Independent(i) => processed_results[i] = BatchOfOne(i, force_refresh)

\* C1 witness: a returned batch in which one item failed in extraction, one by
\* an exception leaving its task, and an independent sibling succeeded.
C1_Witness ==
    /\ batch = "returned"
    /\ \E i, j \in Tasks :
        /\ i # j
        /\ calls[j].fetch = "ScraperError" \/ calls[j].callback = "raised"
        /\ IsFailure(processed_results[j])
        /\ processed_results[i].success
        /\ Independent(i)
        /\ LooksUp

\* C2: the returned list has the input's length and its i-th outcome carries
\* the i-th input bookmark, whatever the order the tasks completed in.
C2_InputOrder ==
    batch = "returned" =>
        /\ Len(processed_results) = Len(bookmarks)
        /\ \A i \in 1..Len(bookmarks) : processed_results[i].bookmark = bookmarks[i]

\* C2 witness: a returned batch whose second task completed before its first.
C2_Witness ==
    /\ batch = "returned"
    /\ Len(bookmarks) >= 2
    /\ finished[1] = 2

\* C3: with concurrency c >= 1, never more than c process_bookmark calls are
\* in flight.
C3_ConcurrencyBound ==
    (batch = "running" /\ concurrency >= 1) => Cardinality(InFlight) <= concurrency

\* C3 witness: the limiter is full while a task still waits.
C3_Witness ==
    /\ batch = "running"
    /\ concurrency >= 1
    /\ Cardinality(InFlight) = concurrency
    /\ \E i \in Tasks : pc[i] = "waiting"

\* C4: process_bookmark always returns a result, and when any of its steps
\* raised (or a collaborator was missing) the result is a failure with an error
\* message and no metadata.
C4_NeverRaises ==
    \A i \in Tasks :
        Done(i) =>
            /\ returned[i].kind = "ProcessingResult"
            /\ (StepFailed(i) => IsFailure(returned[i]))

\* C4 witness: one item ended by a cache storage error, another by a missing
\* collaborator.
C4_Witness ==
    \E i, j \in Tasks :
        /\ Done(i) /\ Done(j)
        /\ calls[i].store_llm = "error" \/ calls[i].get_scrape = "error"
        /\ calls[j].generate = "uninitialized"

\* The content handed to the generator was a cached one for the task's url.
GeneratedFromCached(i) ==
    /\ calls[i].generate_with # None
    /\ calls[i].generate_with.url = bookmarks[i].url
    /\ calls[i].generate_with.text # i

Overwrote(i) ==
    /\ ~returned[i].used_cache
    /\ returned[i].scrape_result = ScrapeResult(bookmarks[i].url, i)
    /\ returned[i].llm_metadata = LLMMetadata(bookmarks[i].url, i, i)
    /\ calls[i].store_scrape = "ok" /\ calls[i].store_llm = "ok"
    /\ UniqueUrl(i) =>
        /\ CacheGet(cache_scrape, bookmarks[i].url) = returned[i].scrape_result
        /\ CacheGet(cache_llm, bookmarks[i].url) = returned[i].llm_metadata

\* C6 as stated: with caching on and force_refresh, no lookup is made, the
\* Extractor and the Generator are invoked exactly once each, and a success
\* overwrites both cache entries and reports used_cache false.
C6_Original ==
    \A i \in Tasks :
        (Done(i) /\ use_cache /\ force_refresh) =>
            /\ calls[i].get_scrape = "-" /\ calls[i].get_llm = "-"
            /\ calls[i].n_fetch = 1
            /\ calls[i].n_generate = 1
            /\ returned[i].success => Overwrote(i)

\* C6 amended: no lookup is made; the Extractor, when present, is invoked
\* exactly once; the Generator exactly once when extraction and its store
\* succeeded and the Generator is present, and not at all otherwise; a success
\* overwrites both cache entries and reports used_cache false.
C6_ForceRefresh ==
    \A i \in Tasks :
        (Done(i) /\ use_cache /\ force_refresh) =>
            /\ calls[i].get_scrape = "-" /\ calls[i].get_llm = "-"
            /\ calls[i].n_fetch = (IF scraper # "None" THEN 1 ELSE 0)
            /\ calls[i].n_generate =
                    (IF calls[i].fetch = "ok" /\ calls[i].store_scrape = "ok"
                        /\ llm_service # "None" THEN 1 ELSE 0)
            /\ returned[i].success =>
                    (calls[i].n_fetch = 1 /\ calls[i].n_generate = 1 /\ Overwrote(i))

\* C6 witness: a forced run over a cache that held both kinds for the url
\* succeeded and replaced them.
C6_Witness ==
    /\ use_cache /\ force_refresh
    /\ \E i \in Tasks :
        /\ Done(i)
        /\ returned[i].success
        /\ CacheGet(cache0.scrape, bookmarks[i].url) # None
        /\ CacheGet(cache0.llm, bookmarks[i].url) # None
        /\ CacheGet(cache_llm, bookmarks[i].url) = returned[i].llm_metadata

\* With caching off: no cache call at all, nothing reused, and the result is
\* the one either value of force_refresh gives.
CacheDisabledCommon(i) ==
    /\ calls[i].get_scrape = "-" /\ calls[i].store_scrape = "-"
    /\ calls[i].get_llm = "-" /\ calls[i].store_llm = "-"
    /\ ~used_cache[i] /\ ~returned[i].used_cache
    /\ returned[i] = ProcessBookmarkAlone(i, TRUE)
    /\ returned[i] = ProcessBookmarkAlone(i, FALSE)

\* C7 as stated: with caching off the processor makes no cache call, every
\* item is extracted and generated, used_cache is false, and force_refresh
\* changes neither the outcomes nor the collaborator calls.
C7_Original ==
    ~use_cache =>
        /\ cache_ops = {}
        /\ \A i \in Tasks :
            Done(i) =>
                /\ calls[i].n_fetch = 1
                /\ calls[i].n_generate = 1
                /\ CacheDisabledCommon(i)

\* C7 amended: with caching off the processor makes no cache call, the
\* Extractor is invoked exactly once for every item when present and the
\* Generator exactly once for every item whose extraction succeeded when
\* present (never from the cache), used_cache is false, and force_refresh
\* changes neither the outcomes nor the collaborator calls.
C7_CacheDisabled ==
    ~use_cache =>
        /\ cache_ops = {}
        /\ \A i \in Tasks :
            Done(i) =>
                /\ calls[i].n_fetch = (IF scraper # "None" THEN 1 ELSE 0)
                /\ calls[i].n_generate =
                        (IF calls[i].fetch = "ok" /\ llm_service # "None" THEN 1 ELSE 0)
                /\ CacheDisabledCommon(i)

\* C7 witness: with caching off, an item whose url the cache holds in both
\* kinds was extracted and generated, under either value of force_refresh.
C7_Witness ==
    /\ ~use_cache
    /\ batch = "returned"
    /\ \E i \in Tasks :
        /\ CacheGet(cache_scrape, bookmarks[i].url) # None
        /\ CacheGet(cache_llm, bookmarks[i].url) # None
        /\ calls[i].n_fetch = 1 /\ calls[i].n_generate = 1
        /\ returned[i].success

\* C8: an extraction error ends the item with a "Scraping failed: " failure,
\* neither content nor metadata attached, the Generator never invoked.
C8_ScrapingFailed ==
    \A i \in Tasks :
        (Done(i) /\ calls[i].fetch = "ScraperError") =>
            /\ IsFailure(returned[i])
            /\ returned[i].error.prefix = "Scraping failed: "
            /\ returned[i].scrape_result = None
            /\ returned[i].llm_metadata = None
            /\ calls[i].n_generate = 0 /\ calls[i].generate = "-"

\* C8 witness: an item whose extraction raised the extraction error.
C8_Witness == \E i \in Tasks : Done(i) /\ calls[i].fetch = "ScraperError"

\* C9: a generation error ends the item with an "LLM processing failed: "
\* failure, metadata absent, the content it was generated from retained, and
\* no metadata written to the cache.
C9_LLMFailed ==
    \A i \in Tasks :
        (Done(i) /\ calls[i].generate = "LLMError") =>
            /\ IsFailure(returned[i])
            /\ returned[i].error.prefix = "LLM processing failed: "
            /\ returned[i].scrape_result # None
            /\ returned[i].scrape_result = calls[i].generate_with
            /\ returned[i].scrape_result = scrape_result[i]
            /\ calls[i].store_llm = "-"
            /\ UniqueUrl(i) =>
                CacheGet(cache_llm, bookmarks[i].url) = CacheGet(cache0.llm, bookmarks[i].url)

\* C9 witness: the generator failed once on cached content and once on
\* freshly extracted content.
C9_Witness ==
    \E i, j \in Tasks :
        /\ Done(i) /\ Done(j)
        /\ calls[i].generate = "LLMError" /\ calls[i].get_scrape = "hit"
        /\ calls[j].generate = "LLMError" /\ calls[j].fetch = "ok"

\* The two shapes of an outcome.
WellShaped(r) ==
    /\ r.kind = "ProcessingResult"
    /\ r.success = (r.error = None /\ r.llm_metadata # None)
    /\ \/ r.success /\ r.error = None /\ r.scrape_result # None /\ r.llm_metadata # None
       \/ ~r.success /\ r.error # None /\ r.llm_metadata = None

\* C10: every outcome of process_bookmark and of process_bookmarks is a
\* success with no error and both content and metadata, or a failure with an
\* error and no metadata; success = (error absent and metadata present).
C10_OutcomeShape ==
    /\ \A i \in Tasks : Done(i) => WellShaped(returned[i])
    /\ batch = "returned" => \A i \in Tasks : WellShaped(processed_results[i])

\* C10 witness: a returned batch holding a success and a failed task.
C10_Witness ==
    /\ batch = "returned"
    /\ \E i, j \in Tasks :
        /\ processed_results[i].success
        /\ processed_results[j].error # None
        /\ processed_results[j].error.prefix = "Task failed: "

\* C11 as stated: the used_cache flag of every outcome of process_bookmark is
\* true iff a cache lookup made for the item returned a cached value, on the
\* success path and on the failure paths alike.
C11_Original ==
    \A i \in Tasks :
        Done(i) =>
            (returned[i].used_cache <=>
                (calls[i].get_scrape = "hit" \/ calls[i].get_llm = "hit"))

\* C11 amended: the used_cache flag of a success outcome is true iff a cache
\* lookup made for the item returned a cached value; every failure outcome
\* carries used_cache false, also when a lookup of the item had hit.
C11_UsedCacheFlag ==
    \A i \in Tasks :
        Done(i) =>
            (returned[i].used_cache <=>
                (returned[i].success
                    /\ (calls[i].get_scrape = "hit" \/ calls[i].get_llm = "hit")))

\* C11 witness: one item succeeded from cached content, another failed in
\* generation after its content lookup had hit and reports used_cache false.
C11_Witness ==
    \E i, j \in Tasks :
        /\ Done(i) /\ Done(j)
        /\ returned[i].success /\ calls[i].get_scrape = "hit" /\ calls[i].generate = "ok"
        /\ returned[i].used_cache
        /\ calls[j].get_scrape = "hit" /\ calls[j].generate = "LLMError"
        /\ ~returned[j].used_cache

\* C12: with a progress callback, the callback has been invoked once for every
\* completed bookmark and for no other, always with total = N, the k-th
\* invocation receiving completed = k; a returned batch made N invocations.
C12_ProgressCallback ==
    IF has_callback
    THEN /\ Len(progress) = Cardinality({i \in Tasks : Done(i)})
         /\ \A k \in 1..Len(progress) : progress[k] = <<k, Len(bookmarks)>>
         /\ \A i \in Tasks : Done(i) <=> calls[i].callback \in {"ok", "raised"}
         /\ batch = "returned" => Len(progress) = Len(bookmarks)
    ELSE progress = <<>>

\* C12 witness: a returned batch of two with a callback, run two at a time,
\* the second task completing first, one item a failure and one callback
\* invocation raising.
C12_Witness ==
    /\ batch = "returned"
    /\ has_callback
    /\ Len(bookmarks) = 2 /\ concurrency = 2
    /\ finished[1] = 2
    /\ \E i \in Tasks : StepFailed(i)
    /\ \E i \in Tasks : calls[i].callback = "raised"
    /\ progress = <<<<1, 2>>, <<2, 2>>>>

\* C13: the batch returns for every position the outcome process_bookmark
\* produced for it, which is what it returns without a callback: whatever the
\* callback does, raising included, changes no outcome.
C13_Advisory ==
    batch = "returned" => \A i \in Tasks : processed_results[i] = returned[i]

\* C14: a permit is held by exactly the tasks in flight and all permits are
\* back once the batch returned; with concurrency >= 1 a running batch
\* eventually returns (every task admitted and finished).
C14_BatchReturns ==
    /\ [](batch = "running" => sem + Cardinality(InFlight) = concurrency)
    /\ [](batch = "returned" => sem = concurrency)
    /\ (batch = "running" /\ concurrency >= 1) ~> (batch = "returned")

\* C14 witness: a batch of two behind one permit returned although one task
\* ended by an exception (of the callback) and the other by a failure.
C14_Witness ==
    /\ batch = "returned"
    /\ concurrency = 1 /\ Len(bookmarks) = 2
    /\ sem = concurrency
    /\ \E i, j \in Tasks :
        /\ i # j
        /\ calls[i].callback = "raised"
        /\ StepFailed(j)

\* The rows table scrape_results / llm_metadata holds for url u.
ScrapeEntries(u) == {r \in db_scrape : r[2] = u}

LLMEntries(u) == {r \in db_llm : r[2] = u}

\* Caller c's step is a store into one kind for one url.
StoresScrape(c) ==
    cm_call[c].pc = "store_scrape_result" /\ cm_call'[c].pc = "returned"

StoresLLM(c) ==
    cm_call[c].pc = "store_llm_metadata" /\ cm_call'[c].pc = "returned"

\* C15: a get returns the value last stored for its kind and url since the
\* last clear, all fields equal, or None when there is none, and never raises;
\* a table holds at most one row per url, and exactly the last stored value;
\* a store leaves the other table and the rows of every other url unchanged.
C15_CacheRoundTrip ==
    /\ [](\A c \in Callers :
            (cm_call[c].pc = "returned"
                /\ cm_call[c].op \in {"get_scrape_result", "get_llm_metadata"}) =>
                cm_call[c].result = Returns(cm_call[c].stored_then))
    /\ [](\A u \in URLS :
            /\ Cardinality(ScrapeEntries(u)) <= 1
            /\ Cardinality(LLMEntries(u)) <= 1
            /\ ScrapeEntries(u) =
                    (IF cm_stored["scrape_results"][u] = None THEN {}
                     ELSE {ScrapeRow(cm_stored["scrape_results"][u])})
            /\ LLMEntries(u) =
                    (IF cm_stored["llm_metadata"][u] = None THEN {}
                     ELSE {LLMRow(cm_stored["llm_metadata"][u])}))
    /\ [][\A c \in Callers :
            /\ StoresScrape(c) =>
                    /\ db_llm' = db_llm
                    /\ \A u \in URLS \ {cm_call[c].arg.url} :
                            ScrapeEntries(u)' = ScrapeEntries(u)
            /\ StoresLLM(c) =>
                    /\ db_scrape' = db_scrape
                    /\ \A u \in URLS \ {cm_call[c].arg.url} :
                            LLMEntries(u)' = LLMEntries(u)]_vars

\* C15 witness: over the entries an earlier run left for u1, a get returned
\* the content this run stored over the old one, the metadata entry of u1
\* still the old one.
C15_Witness ==
    \E c \in Callers :
        /\ cm_call[c].pc = "returned"
        /\ cm_call[c].op = "get_scrape_result"
        /\ cm_call[c].arg.url = "u1"
        /\ cm_call[c].result.value # None
        /\ cm_call[c].result.value # OldScrape("u1")
        /\ LLMEntries("u1") = {LLMRow(OldLLM("u1"))}

\* Caller c is inside initialize.
Initializing(c) == cm_call[c].pc \in {"initialize", "ddl", "commit"}

\* C16: no CacheManager call raises; whatever manager it is made on, a call
\* that is past initialize finds the schema; and no step of initialize, by
\* whichever manager and however interleaved, changes a row of either table.
C16_LazyInitialize ==
    /\ [](\A c \in Callers :
            /\ cm_call[c].pc = "returned" => cm_call[c].result.kind = "return"
            /\ (cm_call[c].pc # "idle" /\ ~Initializing(c)) => Schema \subseteq db_tables)
    /\ [][\A c \in Callers :
            (Initializing(c) /\ cm_call'[c] # cm_call[c]) =>
                (db_scrape' = db_scrape /\ db_llm' = db_llm)]_vars

\* C16 witness: the second manager has run its CREATE statements over a store
\* the first manager initialized and in which this run stored content, while
\* another call is under way.
C16_Witness ==
    \E c \in Callers, m \in Managers :
        /\ cm_call[c].pc = "commit"
        /\ cm_call[c].m # m
        /\ cm_initialized[m]
        /\ \E r \in db_scrape : r[3] >= 1
        /\ \E d \in Callers \ {c} : cm_call[d].pc # "idle"

\* The one well-formed content and the responses that carry it.
ValidResponse(r) ==
    /\ r.kind = "response"
    /\ r.choices # <<>>
    /\ r.choices[1] = "{\"name\": \"N\", \"description\": \"D\"}"

\* A response without content, with content that is no JSON, or whose JSON
\* lacks a field.
Malformed(r) == r.kind = "response" /\ ~ValidResponse(r)

\* Every remote call made so far raised an exception of class e.
EveryCallRaised(e) == \A k \in 1..Len(remote) : remote[k] = RemoteRaises(e)

\* C17: with max_retries = n >= 1 and every remote call failing with a
\* rate-limit error (or every call with a timeout), title_desc does not return,
\* makes n remote calls and then raises the LLMError naming the exhaustion.
C17_RetryExhaustion ==
    \A e \in {"RateLimitError", "APITimeoutError"} :
        (max_retries >= 1 /\ EveryCallRaised(e)) =>
            /\ llm_pc # "returned"
            /\ Len(remote) <= max_retries
            /\ llm_pc = "raised" =>
                /\ Len(remote) = max_retries
                /\ llm_outcome = Raises(LLMError(
                        (IF e = "RateLimitError" THEN "Rate limit exceeded after "
                         ELSE "Request timeout after ")
                        \o ToString(max_retries) \o " attempts"))

\* C17 witness: max_retries = 3 and three rate-limit errors ended the call.
C17_Witness ==
    /\ llm_pc = "raised"
    /\ max_retries = 3
    /\ Len(remote) = 3
    /\ EveryCallRaised("RateLimitError")

\* C18: a remote call failing with an API error that is neither rate-limit nor
\* timeout is the last remote call: title_desc raises the LLMError at once,
\* and the only sleeps made are those after the earlier failures.
C18_NoRetryOnAPIError ==
    \A k \in 1..Len(remote) :
        remote[k] = RemoteRaises("APIError") =>
            /\ k = Len(remote)
            /\ llm_pc = "raised"
            /\ llm_outcome = Raises(LLMError("OpenAI API error: APIError"))
            /\ Len(sleeps) = k - 1

\* C18 witness: the API error came at the second of three allowed attempts.
C18_Witness ==
    /\ max_retries = 3
    /\ Len(remote) = 2
    /\ remote[2] = RemoteRaises("APIError")
    /\ llm_pc = "raised"

\* C19: at most max_retries remote calls are made; the first valid response
\* is the last call and its metadata is returned; the call ends by returning
\* metadata or by raising an LLMError; and while it runs, attempts are left.
C19_BoundedAttempts ==
    /\ Len(remote) <= max_retries
    /\ \A k \in 1..Len(remote) :
            ValidResponse(remote[k]) =>
                /\ k = Len(remote)
                /\ llm_pc = "returned"
    /\ llm_pc = "returned" =>
            /\ llm_outcome.kind = "return"
            /\ llm_outcome.value.kind = "LLMMetadata"
            /\ ValidResponse(remote[Len(remote)])
    /\ llm_pc = "raised" =>
            /\ llm_outcome.kind = "raise"
            /\ llm_outcome.e.kind = "LLMError"
    /\ llm_pc = "create" => (attempt < max_retries /\ Len(remote) = attempt)
    /\ llm_pc = "sleep" => (attempt + 1 < max_retries /\ Len(remote) = attempt + 1)

\* C19 witness: the third of three allowed calls was the first to succeed,
\* after a rate-limit error and an unexpected error.
C19_Witness ==
    /\ max_retries = 3
    /\ Len(remote) = 3
    /\ remote[1] = RemoteRaises("RateLimitError")
    /\ remote[2] = RemoteRaises("Exception")
    /\ llm_pc = "returned"

\* The messages of the errors a malformed response raises inside the try.
MalformedMessages ==
    {"Empty response from OpenAI", "Invalid JSON response: ",
     "Response missing required fields 'name' or 'description'", "TypeError"}

\* C20: a malformed response yields no metadata; it is handled as an
\* unexpected error is: followed by the one-second sleep while attempts are
\* left, by the LLMError "Failed to generate metadata: ..." at the last
\* attempt; with every response malformed the error comes after exactly
\* max_retries remote calls.
C20_MalformedResponse ==
    /\ \A k \in 1..Len(remote) :
            Malformed(remote[k]) =>
                /\ k = Len(remote) => llm_pc # "returned"
                /\ k < max_retries =>
                        (Len(sleeps) >= k /\ sleeps[k].clause = "Exception"
                            /\ sleeps[k].delay = 10)
                /\ k = max_retries =>
                        /\ llm_pc = "raised"
                        /\ llm_outcome \in
                                {Raises(LLMError("Failed to generate metadata: " \o m)) :
                                    m \in MalformedMessages}
    /\ (llm_pc = "raised" /\ max_retries >= 1
            /\ \A k \in 1..Len(remote) : Malformed(remote[k])) =>
            Len(remote) = max_retries

\* C20 witness: three allowed attempts met an empty response, content that is
\* no JSON and JSON lacking a field, and the call raised.
C20_Witness ==
    /\ max_retries = 3
    /\ Len(remote) = 3
    /\ remote[1] = Response(<<>>, Usage(7))
    /\ remote[2] = Response(<<"not json">>, Usage(7))
    /\ remote[3] = Response(<<"{\"name\": \"N\"}">>, Usage(7))
    /\ llm_pc = "raised"

\* The delay the retry policy states for the rate-limit class and for the
\* classes with a fixed delay, in tenths of a second.
RateLimitDelay(a) == 10 * (2 ^ a) + a

\* Every sleep of the title_desc call under way follows the policy of the
\* single-item call, and none follows the final attempt.
TitleDescSleepsAsStated ==
    \A k \in 1..Len(sleeps) :
        /\ sleeps[k].attempt = k - 1
        /\ sleeps[k].attempt < max_retries - 1
        /\ sleeps[k].clause = "RateLimitError" =>
                sleeps[k].delay = RateLimitDelay(sleeps[k].attempt)
        /\ sleeps[k].clause = "APITimeoutError" => sleeps[k].delay = 10
        /\ sleeps[k].clause = "Exception" => sleeps[k].delay = 10

\* The sleeps of the propose_taxonomy call under way but for those after an
\* unexpected error: the rate-limit delay, a fixed timeout delay longer than
\* the single-item call's, and none after the final attempt.
TaxonomySleepsAsStated ==
    /\ \A k \in 1..Len(tax_sleeps) :
        /\ tax_sleeps[k].attempt = k - 1
        /\ tax_sleeps[k].attempt < tax_max_retries - 1
        /\ tax_sleeps[k].clause = "RateLimitError" =>
                tax_sleeps[k].delay = RateLimitDelay(tax_sleeps[k].attempt)
        /\ tax_sleeps[k].clause = "APITimeoutError" => tax_sleeps[k].delay > 10
    /\ \A k, l \in 1..Len(tax_sleeps) :
        (tax_sleeps[k].clause = "APITimeoutError" /\ tax_sleeps[l].clause = "APITimeoutError")
            => tax_sleeps[k].delay = tax_sleeps[l].delay

\* C21 as stated: the delay before a retry depends only on the error class
\* and the attempt, for title_desc and propose_taxonomy alike; an unexpected
\* local error is followed by one second in either call.
C21_Original ==
    /\ TitleDescSleepsAsStated
    /\ TaxonomySleepsAsStated
    /\ \A k \in 1..Len(tax_sleeps) :
            tax_sleeps[k].clause = "Exception" => tax_sleeps[k].delay = 10

\* C21: the delay before a retry depends only on the call, the error class
\* and the attempt a: 2^a + 0.1 a seconds after a rate-limit error in either
\* call; after a timeout and after an unexpected local error one second in
\* title_desc and two seconds in propose_taxonomy; no sleep follows the final
\* attempt.
C21_RetryDelay ==
    /\ TitleDescSleepsAsStated
    /\ TaxonomySleepsAsStated
    /\ \A k \in 1..Len(tax_sleeps) :
            tax_sleeps[k].clause \in {"APITimeoutError", "Exception"}
                => tax_sleeps[k].delay = 20

\* C21 witness: a taxonomy call of three attempts slept after a timeout and
\* after an unexpected error and failed at its last attempt without a sleep,
\* and a title_desc call slept after two rate-limit errors.
C21_Witness ==
    /\ tax_max_retries = 3
    /\ tax_pc = "raised"
    /\ Len(tax_sleeps) = 2
    /\ tax_sleeps[1].clause = "APITimeoutError"
    /\ tax_sleeps[2].clause = "Exception"
    /\ tax_attempt = 2
    /\ Len(sleeps) = 2
    /\ sleeps[1].clause = "RateLimitError"
    /\ sleeps[2].clause = "RateLimitError"
    /\ sleeps[2].delay = 21

\* The first min(len, bound) characters of s, one by one.
FirstCharacters(s, bound) ==
    [i \in 1..(IF Len(s) <= bound THEN Len(s) ELSE bound) |-> s[i]]

\* C22: the metadata title_desc builds has a name of at most 80 characters
\* and a description of at most 200, each the first min(len, bound)
\* characters of the value the response held, whatever its length.
C22_FieldLength ==
    built_metadata # None =>
        /\ Len(built_metadata.name) <= 80
        /\ Len(built_metadata.description) <= 200
        /\ built_metadata.name = FirstCharacters(parsed_data.name.chars, 80)
        /\ built_metadata.description = FirstCharacters(parsed_data.description.chars, 200)

\* C22 witness: a name of 150 characters became its first 80, a description
\* of 300 its first 200.
C22_Witness ==
    /\ built_metadata # None
    /\ Len(parsed_data.name.chars) = 150
    /\ Len(parsed_data.description.chars) = 300
    /\ Len(built_metadata.name) = 80
    /\ Len(built_metadata.description) = 200

\* The fetch called last has returned or raised.
FetchDone == fetch_pc \in {"returned", "raised"}

\* The strategies the fetch called last has invoked, in order.
Invoked == [k \in 1..Len(fetch_calls) |-> fetch_calls[k].strategy]

\* C23: a fetch on a WebScraper whose primary strategy was started invokes
\* the primary strategy first; if that returns, the fallback is not invoked
\* and its result is returned; if it fails and fallback is allowed, the
\* fallback is invoked exactly once with the same url and the fetch ends as
\* the fallback does; if fallback is not allowed the primary strategy's error
\* is raised and the fallback is not invoked.
C23_FallbackPolicy ==
    (fetch_session # None /\ fetch_session.context = "open") =>
        /\ fetch_pc = "primary" => fetch_calls = <<>>
        /\ fetch_pc = "fallback" =>
                /\ Invoked = <<"playwright">>
                /\ fetch_calls[1].result.kind = "raise"
                /\ fetch_retry
        /\ FetchDone =>
                /\ Len(fetch_calls) >= 1
                /\ fetch_calls[1].strategy = "playwright"
                /\ \A k \in 1..Len(fetch_calls) : fetch_calls[k].url = fetch_url
                /\ fetch_calls[1].result.kind = "return" =>
                        /\ Invoked = <<"playwright">>
                        /\ fetch_pc = "returned"
                        /\ fetch_outcome = fetch_calls[1].result
                /\ (fetch_calls[1].result.kind = "raise" /\ fetch_retry) =>
                        /\ Invoked = <<"playwright", "httpx">>
                        /\ fetch_outcome = fetch_calls[2].result
                        /\ (fetch_pc = "raised") = (fetch_calls[2].result.kind = "raise")
                /\ (fetch_calls[1].result.kind = "raise" /\ ~fetch_retry) =>
                        /\ Invoked = <<"playwright">>
                        /\ fetch_pc = "raised"
                        /\ fetch_outcome = fetch_calls[1].result

\* C23 witness: the started primary strategy failed, the fallback was allowed
\* and returned the content.
C23_Witness ==
    /\ fetch_pc = "returned"
    /\ fetch_session.context = "open"
    /\ fetch_retry
    /\ Len(fetch_calls) = 2
    /\ fetch_calls[1].result.kind = "raise"
    /\ fetch_outcome = Returns(ScrapeResult(fetch_url, "httpx"))

\* The primary strategy was configured for use but its browser session was
\* not started when the fetch called last was called.
NotStarted ==
    /\ fetch_session # None
    /\ ws_use_playwright
    /\ fetch_session.context = "None"

\* C24: a fetch on a WebScraper whose primary strategy is configured for use
\* but whose browser session has not been started raises the ScraperError
\* "Browser not started. ..." and does not invoke the fallback strategy,
\* whether fallback is allowed or not.
C24_NotStartedIsAnError ==
    (FetchDone /\ NotStarted) =>
        /\ fetch_pc = "raised"
        /\ fetch_outcome =
                Raises(ScraperError("Browser not started. Use async context manager."))
        /\ \A k \in 1..Len(fetch_calls) : fetch_calls[k].strategy # "httpx"

\* C25: for both strategies and both paths of _extract_readable_text, a text
\* of at most 10,000 characters is returned as it is and a longer one as its
\* first 10,000 characters followed by "...", so that no result is longer
\* than 10,003 characters and the result depends on the text alone.
C25_TextTruncation ==
    text_out # None =>
        /\ Len(text_in) <= 10000 => text_out.value = text_in
        /\ Len(text_in) > 10000 =>
                /\ Len(text_out.value) = 10003
                /\ \A i \in 1..10000 : text_out.value[i] = text_in[i]
                /\ \A i \in 10001..10003 : text_out.value[i] = 0
        /\ Len(text_out.value) <= 10003

\* C25 witness: the except path of the HTTPX strategy truncated a text of
\* 10,050 characters.
C25_Witness ==
    /\ text_out # None
    /\ text_strategy = "httpx"
    /\ text_path = "basic"
    /\ Len(text_in) = 10050
    /\ Len(text_out.value) = 10003

\* The processor's context has been exited.
ProcessorExited == processor_ctx \in {"exited", "exited_on_exception"}

\* C26: a processor built without a scraper enters the WebScraper it builds,
\* once, when its own context is entered, which starts the browser session;
\* it exits it exactly once when its context is exited, after any fetches
\* and whether the body raised or not, which closes the session; before the
\* exit it exits nothing.
C26_OwnedScraper ==
    ~supplied =>
        /\ processor_ctx = "new" => (scraper = "None" /\ ws_enters = 0 /\ ws_exits = 0)
        /\ processor_ctx = "entered" =>
                /\ scraper = "WebScraper"
                /\ ws_enters = 1
                /\ ws_exits = 0
                /\ pw_browser = "open"
                /\ pw_context = "open"
        /\ ProcessorExited =>
                /\ ws_enters = 1
                /\ ws_exits = 1
                /\ pw_browser = "closed"
                /\ pw_context = "closed"

\* C26 witness: the context of a processor that built its scraper was left
\* on an exception after one item was fetched and another failed.
C26_Witness ==
    /\ ~supplied
    /\ processor_ctx = "exited_on_exception"
    /\ fetches = <<"ok", "failed">>
    /\ ws_exits = 1

\* C27: a processor given its scraper by the caller neither enters nor exits
\* it: entering and exiting the processor's context leaves the scraper's
\* context and browser session as they were when the processor was built.
C27_SuppliedScraperUntouched ==
    supplied => ScraperState = ws0

\* C28: once the WebScraper's context has been exited, the browsing context
\* and the browser that its entry started are both closed, whatever fetches
\* were made in between; the exit of a WebScraper for HTTP only finds no
\* PlaywrightScraper and closes nothing.
C28_SessionClosed ==
    (ws_ctx = "exited" /\ ws_exits = 1) =>
        /\ ws_enters = 1
        /\ ws_use_playwright =>
                /\ ws_playwright_scraper = "PlaywrightScraper"
                /\ pw_context = "closed"
                /\ pw_browser = "closed"
        /\ ~ws_use_playwright =>
                /\ ws_playwright_scraper = "None"
                /\ pw_context = "None"
                /\ pw_browser = "None"

\* C28 witness: a WebScraper with a started browser was exited after one
\* fetch that succeeded and one, made on the started browser, that failed.
C28_Witness ==
    /\ ws_ctx = "exited"
    /\ ws_use_playwright
    /\ pw_browser = "closed"
    /\ pw_context = "closed"
    /\ fetches = <<"ok", "failed">>
    /\ fetch_pc = "raised"
    /\ fetch_session.context = "open"

\* C29: with a processor whose context was never entered and that was given
\* neither scraper nor LLM service, process_bookmarks does not run the batch:
\* it returns no per-item failure outcomes.
C29_BatchDoesNotStart ==
    (scraper = "None" /\ llm_service = "None" /\ batch = "returned") =>
        \A i \in Tasks : ~IsFailure(processed_results[i])

\* The items of the batch whose reported outcome is a success.
Successful == {i \in 1..Len(processed_results) : processed_results[i].success}

\* C30: process_bookmarks_to_metadata returns a list (it does not raise)
\* holding exactly the metadata of the successful outcomes of the batch, in
\* the order of the input; failed items are absent and reported in errors;
\* with no success the list is empty.
C30_SuccessfulMetadata ==
    metadata_list # None =>
        /\ batch = "returned"
        /\ metadata_list.kind = "list"
        /\ Len(metadata_list.items) = Cardinality(Successful)
        /\ \A i \in Successful :
                /\ processed_results[i].bookmark = bookmarks[i]
                /\ metadata_list.items[Cardinality({j \in Successful : j <= i})]
                        = processed_results[i].llm_metadata
        /\ \A k \in 1..Len(metadata_list.items) : metadata_list.items[k] # None
        /\ Successful = {} => metadata_list.items = <<>>
        /\ Len(errors) = Len(processed_results) - Cardinality(Successful)

\* C30 witness: of two items the first failed and the second succeeded, and
\* the list returned holds the second's metadata alone.
C30_Witness ==
    /\ metadata_list # None
    /\ Len(processed_results) = 2
    /\ ~processed_results[1].success
    /\ processed_results[2].success
    /\ metadata_list.items = <<processed_results[2].llm_metadata>>
    /\ Len(errors) = 1

\* C31: in dry-run mode no sequence of backup_bookmarks, _run_applescript,
\* PersistenceManager.apply_taxonomy and BookmarkController.apply_taxonomy
\* calls executes an OS script or copies the bookmark store.
C31_DryRunTouchesNothing == pm_dry_run => os_effects = <<>>

\* A dry run on which each of the four operations was called and returned.
C31_Witness ==
    /\ pm_dry_run
    /\ pm_configured
    /\ Len(pm_calls) = 4
    /\ \A op \in {"backup_bookmarks", "_run_applescript",
                  "PersistenceManager.apply_taxonomy",
                  "BookmarkController.apply_taxonomy"} :
        \E k \in 1..4 : pm_calls[k].op = op /\ pm_calls[k].result.kind = "return"

\* The organize command was run with the option --no-scrape set as given.
RanWith(no_scrape) == batch # "idle" /\ force_refresh = ForceRefreshOf(no_scrape)

\* C32: when organize is run with --no-scrape the Extractor is never invoked
\* for any bookmark, whatever the cache contains.
C32_NoScrapeNeverExtracts ==
    RanWith(TRUE) => \A i \in Tasks : calls[i].n_fetch = 0

\* C39: in a default run of organize (no --no-scrape) a bookmark whose
\* extracted content and metadata were both cached by an earlier run is
\* served without invoking the Extractor or the Generator.
C39_DefaultRunIsCacheFirst ==
    RanWith(FALSE) =>
        \A i \in Tasks :
            (/\ CacheGet(cache0.scrape, bookmarks[i].url) # None
             /\ CacheGet(cache0.llm, bookmarks[i].url) # None)
            => calls[i].n_fetch = 0 /\ calls[i].n_generate = 0

\* C33: in every reachable cache state, whenever both an extracted-content
\* entry and a metadata entry exist for a URL, the metadata entry was
\* generated from the extracted content currently cached for that URL.
C33_MetadataFromCachedContent ==
    \A k \in Keys :
        (cache_scrape[k] # None /\ cache_llm[k] # None)
        => cache_llm[k].text = cache_scrape[k].text

\* Every collaborator call task i has made succeeded, on a processor that
\* has its collaborators.
AllSucceeded(i) ==
    /\ scraper # "None" /\ llm_service # "None"
    /\ calls[i].get_scrape # "error" /\ calls[i].store_scrape # "error"
    /\ calls[i].get_llm # "error" /\ calls[i].store_llm # "error"
    /\ calls[i].fetch \in {"-", "ok"}
    /\ calls[i].generate \in {"-", "ok"}

\* A batch with caching enabled and force_refresh false over an empty cache,
\* every collaborator call of which succeeded so far.
CleanBatch ==
    /\ batch # "idle"
    /\ use_cache /\ ~force_refresh
    /\ cache0 = [scrape |-> ScrapeTable({}), llm |-> LLMTable({})]
    /\ \A i \in Tasks : AllSucceeded(i)

\* The Extractor has been invoked by two tasks for the same URL.
ExtractedTwice ==
    \E i, j \in Tasks :
        /\ i # j /\ bookmarks[i].url = bookmarks[j].url
        /\ calls[i].n_fetch > 0 /\ calls[j].n_fetch > 0

\* C34: in such a batch the Extractor is invoked twice for the same URL only
\* if the URL is in the batch more than once and concurrency >= 2; with
\* concurrency = 1 each distinct URL is extracted and generated at most once.
C34_DuplicateExtraction ==
    CleanBatch =>
        /\ ExtractedTwice => concurrency >= 2
        /\ concurrency = 1 =>
            \A u \in URLS :
                /\ Cardinality({i \in Tasks : bookmarks[i].url = u /\ calls[i].n_fetch > 0}) <= 1
                /\ Cardinality({i \in Tasks : bookmarks[i].url = u /\ calls[i].n_generate > 0}) <= 1
                /\ \A i \in Tasks : calls[i].n_fetch <= 1 /\ calls[i].n_generate <= 1

\* With concurrency 2, two tasks for the same URL both missed the cache and
\* both invoked the Extractor; the batch returned.
C34_Witness ==
    /\ CleanBatch
    /\ concurrency >= 2
    /\ ExtractedTwice
    /\ \A i \in Tasks : calls[i].get_scrape = "miss"
    /\ batch = "returned"

\* The Generator was invoked for item i with content in hand, and with the
\* content of the item's own URL.
GeneratedFromOwnContent(i) ==
    calls[i].n_generate > 0 =>
        /\ calls[i].generate_with # None
        /\ calls[i].generate_with.kind = "ScrapeResult"
        /\ calls[i].generate_with.url = bookmarks[i].url
        /\ calls[i].fetch = "ok" => calls[i].generate_with = ScrapeResult(bookmarks[i].url, i)

\* Item i ended in a generation failure.
FailedInGeneration(i) ==
    /\ pc[i] = "done"
    /\ calls[i].generate \in {"LLMError", "Exception"}

\* Item j was processed after item i had ended: the tasks of a batch of
\* concurrency 1 run one after the other, in the order they finish.
Later(i, j) ==
    /\ concurrency = 1
    /\ \E m, n \in 1..Len(finished) : m < n /\ finished[m] = i /\ finished[n] = j

\* After a generation failure with caching enabled, a later item of the same
\* URL with force_refresh false does not invoke the Extractor.
NoSecondExtraction ==
    \A i, j \in Tasks :
        (/\ use_cache /\ ~force_refresh
         /\ bookmarks[i].url = bookmarks[j].url
         /\ FailedInGeneration(i) /\ Later(i, j))
        => calls[j].n_fetch = 0

\* C35 as stated: the Generator is invoked only after extracted content is
\* available and receives the content of the same bookmark, freshly extracted
\* content is stored in the cache before the Generator is invoked, and after
\* a generation failure a later item of the same URL is not extracted again.
C35_Original ==
    /\ \A i \in Tasks :
        /\ GeneratedFromOwnContent(i)
        /\ (calls[i].fetch = "ok" /\ calls[i].n_generate > 0)
           => calls[i].store_scrape = "ok"
    /\ NoSecondExtraction

\* C35, amended: freshly extracted content is stored before the Generator is
\* invoked when caching is enabled (with caching disabled nothing is stored).
C35_Sequential ==
    /\ \A i \in Tasks :
        /\ GeneratedFromOwnContent(i)
        /\ (use_cache /\ calls[i].fetch = "ok" /\ calls[i].n_generate > 0)
           => calls[i].store_scrape = "ok"
        /\ (~use_cache /\ calls[i].n_generate > 0) => calls[i].store_scrape = "-"
    /\ NoSecondExtraction

\* With caching enabled the first item fetched, stored and failed in
\* generation; the second item of the same URL, processed later, found the
\* content in the cache and did not fetch.
C35_Witness ==
    /\ use_cache /\ ~force_refresh
    /\ Len(bookmarks) = 2
    /\ bookmarks[1].url = bookmarks[2].url
    /\ calls[1].fetch = "ok" /\ calls[1].store_scrape = "ok"
    /\ calls[1].generate = "LLMError"
    /\ FailedInGeneration(1) /\ Later(1, 2)
    /\ pc[2] = "done"
    /\ calls[2].get_scrape = "hit" /\ calls[2].n_fetch = 0

\* C36: with concurrency = 0 and a non-empty bookmark list no task is ever
\* admitted by the limiter: process_bookmarks never returns, no collaborator
\* is invoked and the progress callback is never called; the value is
\* accepted as it is.
C36_ZeroConcurrency ==
    (batch # "idle" /\ concurrency = 0 /\ bookmarks # <<>>) =>
        /\ batch = "running"
        /\ sem = 0
        /\ \A i \in Tasks :
            /\ pc[i] = "waiting"
            /\ calls[i] = NoCalls
            /\ returned[i] = None /\ results[i] = None
        /\ completed = 0
        /\ progress = <<>>
        /\ finished = <<>>
        /\ processed_results = <<>>
        /\ cache_ops \subseteq {"initialize"}
        /\ cache_scrape = cache0.scrape /\ cache_llm = cache0.llm

\* A batch of two bookmarks with a callback was started with concurrency 0
\* on an entered processor.
C36_Witness ==
    /\ batch = "running"
    /\ concurrency = 0
    /\ Len(bookmarks) = 2
    /\ has_callback
    /\ scraper # "None" /\ llm_service # "None"

\* C37: every Extractor session started on behalf of a run is released by
\* the time the run's outermost context, the controller's, has exited, also
\* when the processor was handed to the controller by the caller.
C37_SessionReleasedOnExit ==
    (ctl_ctx = "exited" /\ ws0.session.browser # "open") =>
        pw_browser # "open" /\ pw_context # "open"

\* Fetch f is over: it returned or raised.
PageFetchOver(f) == pg_fetch[f].pc \in {"returned", "raised"}

\* C38: each primary-strategy fetch opens its own new page, every page a
\* fetch opened is closed by the time that fetch returns or raises, and no
\* page is open in the shared session whenever no fetch is in flight.
C38_PagesClosed ==
    /\ \A f, g \in 1..Len(pg_fetch) :
        (f # g /\ pg_fetch[f].page # 0) => pg_fetch[f].page # pg_fetch[g].page
    /\ \A f \in 1..Len(pg_fetch) :
        PageFetchOver(f) => pg_fetch[f].page \notin pg_open
    /\ (\A f \in 1..Len(pg_fetch) : PageFetchOver(f)) => pg_open = {}


\* The bookmarks of a tree, in the order of a depth-first walk of children.
RECURSIVE BookmarksUnder(_)
BookmarksUnder(children) ==
    IF children = <<>> THEN <<>>
    ELSE (IF Head(children).kind = "FolderNode"
          THEN BookmarksUnder(Head(children).children)
          ELSE <<Head(children)>>)
         \o BookmarksUnder(Tail(children))

HasUrl(entry) ==
    entry.kind = "dict" /\ "url" \in DOMAIN entry /\ StrStrip(entry.url) # ""

EntryUrls(items) ==
    LET kept == SelectSeq(items, HasUrl) IN
    [i \in 1..Len(kept) |-> StrStrip(kept[i].url)]

\* The urls a taxonomy names, a folder's bookmarks before its subfolders.
RECURSIVE UrlsOfFolders(_)
UrlsOfFolders(folders) ==
    IF folders = <<>> THEN <<>>
    ELSE (IF "bookmarks" \in DOMAIN Head(folders)
          THEN EntryUrls(Head(folders).bookmarks.items) ELSE <<>>)
         \o (IF "subfolders" \in DOMAIN Head(folders)
             THEN UrlsOfFolders(Head(folders).subfolders.items) ELSE <<>>)
         \o UrlsOfFolders(Tail(folders))

RECURSIVE FirstOnes(_, _)
FirstOnes(s, seen) ==
    IF s = <<>> THEN <<>>
    ELSE IF Head(s) \in seen THEN FirstOnes(Tail(s), seen)
    ELSE <<Head(s)>> \o FirstOnes(Tail(s), seen \cup {Head(s)})

RECURSIVE LaterOnes(_, _)
LaterOnes(s, seen) ==
    IF s = <<>> THEN <<>>
    ELSE IF Head(s) \in seen THEN <<Head(s)>> \o LaterOnes(Tail(s), seen)
    ELSE LaterOnes(Tail(s), seen \cup {Head(s)})

OriginalObjects ==
    {tp_input.original_metadata[i] : i \in 1..Len(tp_input.original_metadata)}

OriginalUrls == {m.url : m \in OriginalObjects}

NamedUrls == UrlsOfFolders(tp_input.taxonomy_json.folders.items)

KnownNamedUrls == SelectSeq(NamedUrls, LAMBDA u : u \in OriginalUrls)

PlacedBookmarks == BookmarksUnder(tp_result.value.children)

NewParser ==
    [processed_urls |-> {}, missing_bookmarks |-> {}, duplicate_bookmarks |-> <<>>]

ParseAccepted == tp_calls > 0 /\ tp_result.kind = "return"

\* C40: when parse_taxonomy accepts its input, each url is in the tree at most
\* once, the urls of the tree are the first occurrences of the known urls in
\* the order the taxonomy names them, the later occurrences are the recorded
\* duplicates, every bookmark of the tree is one of the original metadata
\* objects, and the processed and the missing urls are disjoint and together
\* the original urls; and every call, on a parser used before or not, leaves
\* the result and the tracking state that a new parser gives on that input.
C40_ParseTaxonomy ==
    /\ ParseAccepted =>
        /\ \A i, j \in 1..Len(PlacedBookmarks) :
            i # j => PlacedBookmarks[i].url # PlacedBookmarks[j].url
        /\ [i \in 1..Len(PlacedBookmarks) |-> PlacedBookmarks[i].url]
            = FirstOnes(KnownNamedUrls, {})
        /\ tp_duplicate_bookmarks = LaterOnes(KnownNamedUrls, {})
        /\ \A i \in 1..Len(PlacedBookmarks) : PlacedBookmarks[i] \in OriginalObjects
        /\ tp_processed_urls \cap tp_missing_bookmarks = {}
        /\ tp_processed_urls \cup tp_missing_bookmarks = OriginalUrls
    /\ tp_calls > 0 =>
        LET fresh == ParseTaxonomy(tp_input.taxonomy_json, tp_input.original_metadata,
                                   NewParser)
        IN /\ tp_result = fresh.result
           /\ Tracking = fresh.t

\* A parser used before accepts an input with a duplicate, a url it does not
\* know and a url the taxonomy leaves out.
C40_Witness ==
    /\ tp_calls = 2
    /\ ParseAccepted
    /\ tp_processed_urls # {}
    /\ tp_duplicate_bookmarks # <<>>
    /\ tp_missing_bookmarks # {}
    /\ \E i \in 1..Len(NamedUrls) : NamedUrls[i] \notin OriginalUrls

====
